---------------------------- MODULE Spec2Model ----------------------------
(***************************************************************************)
(* Trajectory engine of the methylome-manifold viewer                      *)
(* (methylome_trajectory.py) and the script of app.py: widgets and reruns, *)
(* the path cache, the metric coupling rule and the clinical report.       *)
(*                                                                         *)
(* Fixed-point conventions (TLC integers are 32-bit):                      *)
(*   angles (u, v, walk steps)      units of 0.01 rad      (TwoPi = 628)   *)
(*   cos / sin values               units of 0.001         (TrigOne)       *)
(*   3D coordinates, radii          units of 0.001                         *)
(*   slider magnitudes              units of 0.01                          *)
(*   step_factor, curvature_factor  units of 1e-7          (FactorOne)     *)
(*   metric values                  units of 0.0005        (MetricOne)     *)
(*   32-bit seeds and hashes        <<hi, lo>> pairs of 16-bit limbs       *)
(***************************************************************************)
EXTENDS Integers, Sequences, FiniteSets, TLC

VARIABLES
    mesh,                     \* build_torus_mesh: loop position and the lists built so far
    statusquo_metrics,        \* app.py: hud metrics of the status-quo path
    healthy_metrics,          \* app.py: hud metrics of the healthy path
    intervention_metrics_raw, \* app.py: hud metrics of the blended intervention path
    intervention_metrics,     \* app.py: the coupled record shown and reported
    rng,                      \* state of the process-wide numpy generator
    call,                     \* the last engine call: function, arguments, returned dict
    report,                   \* app.py: the report button handler and its collaborator
    session_state,            \* app.py: st.session_state (start point and the three caches)
    app                       \* app.py: widget values and the position of the script run

vars == <<mesh, statusquo_metrics, healthy_metrics, intervention_metrics_raw,
          intervention_metrics, rng, call, report, session_state, app>>

\* Python None (an absent sliders argument)
None == [none |-> TRUE]

\* no engine call made yet
NoCall == [pc |-> "idle", fn |-> "none"]

\* the report button has not been pressed
ReportIdle == [pc |-> "idle"]

\* st.session_state after "if 'start_uv' not in st.session_state": the start
\* point (1.5, 0.8) and three empty caches
SessionStart ==
    [start_uv |-> <<150, 80>>, baseline_cache |-> None,
     statusquo_cache |-> None, healthy_cache |-> None]

\* no script run in progress
AppIdle == [pc |-> "idle"]

----------------------------------------------------------------------------
(* Arithmetic helpers                                                      *)

Abs(x) == IF x < 0 THEN -x ELSE x

Sign(x) == IF x > 0 THEN 1 ELSE IF x < 0 THEN -1 ELSE 0

Max(a, b) == IF a >= b THEN a ELSE b

Min(a, b) == IF a <= b THEN a ELSE b

TwoPi == 628

HalfPi == 157

TrigOne == 1000

\* cos on [0, pi/2], series 1 - x^2/2 + x^4/24 - x^6/720 in fixed point
CosQuadrant(x) ==
    LET x2 == x * x
    IN  TrigOne - (x2 \div 20) + ((x2 * x2) \div 2400000)
                - ((((x2 * x2) \div 10000) * x2) \div 72000000)

\* cos of an angle within one turn, folded onto the first quadrant by symmetry
CosFolded(t) ==
    LET f == IF t > TwoPi \div 2 THEN TwoPi - t ELSE t
    IN  IF f <= HalfPi THEN CosQuadrant(f) ELSE -CosQuadrant((TwoPi \div 2) - f)

CosTable == [t \in 0..(TwoPi - 1) |-> CosFolded(t)]

\* np.cos, argument reduced to one turn
Cos(a) == CosTable[a % TwoPi]

\* np.sin(a) = cos(a - pi/2)
Sin(a) == Cos(a - HalfPi)

----------------------------------------------------------------------------
(* Surface Mapper                                                          *)

MajorRadius == 3000

MinorRadius == 1150

torus_uv_to_xyz(u, v, R, r) ==
    LET ring == R + ((r * Cos(v)) \div TrigOne)
    IN  [x |-> (ring * Cos(u)) \div TrigOne,
         y |-> (ring * Sin(u)) \div TrigOne,
         z |-> (r * Sin(v)) \div TrigOne]

\* np.linspace(0, 2*pi, n, endpoint=False)[k]
LinspaceTurn(n, k) == (TwoPi * k) \div n

MinSegments == 3

MaxNu == 5

MaxNv == 5

MeshIdle == [pc |-> "idle"]

\* vertex appended by the (vi, ui) loop body: position and outward tube normal
MeshVertex(nu, nv, i, j) ==
    LET ui == LinspaceTurn(nu, j)
        vi == LinspaceTurn(nv, i)
    IN  [position |-> torus_uv_to_xyz(ui, vi, MajorRadius, MinorRadius),
         normal   |-> [x |-> (Cos(vi) * Cos(ui)) \div TrigOne,
                       y |-> (Cos(vi) * Sin(ui)) \div TrigOne,
                       z |-> Sin(vi)]]

\* variant of QuadIndices: the column index j + 1 is not wrapped modulo nu
QuadIndicesNoWrap(nu, nv, i, j) ==
    LET v0 == i * nu + j
        v1 == i * nu + (j + 1)
        v2 == ((i + 1) % nv) * nu + (j + 1)
        v3 == ((i + 1) % nv) * nu + j
    IN  <<v0, v1, v2, v0, v2, v3>>

\* the six indices appended for quad (i, j): triangles (v0,v1,v2) and (v0,v2,v3)
QuadIndices(nu, nv, i, j) ==
    LET v0 == i * nu + j
        v1 == i * nu + ((j + 1) % nu)
        v2 == ((i + 1) % nv) * nu + ((j + 1) % nu)
        v3 == ((i + 1) % nv) * nu + j
    IN  <<v0, v1, v2, v0, v2, v3>>

\* advance a (row i, column j) loop nest by one iteration
NextCell(nu, nv, i, j) ==
    IF j + 1 < nu THEN [i |-> i, j |-> j + 1, last |-> FALSE]
    ELSE IF i + 1 < nv THEN [i |-> i + 1, j |-> 0, last |-> FALSE]
    ELSE [i |-> 0, j |-> 0, last |-> TRUE]

MeshInit ==
    \E nu \in MinSegments..MaxNu, nv \in MinSegments..MaxNv :
        mesh = [pc |-> "vertices", nu |-> nu, nv |-> nv, i |-> 0, j |-> 0,
                positions |-> <<>>, normals |-> <<>>, indices |-> <<>>,
                num_vertices |-> 0, num_triangles |-> 0]

\* one iteration of "for vi in v: for ui in u"
MeshAddVertex ==
    /\ mesh.pc = "vertices"
    /\ LET vx == MeshVertex(mesh.nu, mesh.nv, mesh.i, mesh.j)
           nx == NextCell(mesh.nu, mesh.nv, mesh.i, mesh.j)
       IN  mesh' = [mesh EXCEPT !.positions = Append(@, vx.position),
                                !.normals = Append(@, vx.normal),
                                !.i = nx.i, !.j = nx.j,
                                !.pc = IF nx.last THEN "indices" ELSE "vertices"]
    /\ UNCHANGED <<statusquo_metrics, healthy_metrics, intervention_metrics_raw,
                   intervention_metrics, rng, call, report, session_state, app>>

\* one iteration of "for i in range(nv): for j in range(nu)"
MeshAddQuad ==
    /\ mesh.pc = "indices"
    /\ LET nx == NextCell(mesh.nu, mesh.nv, mesh.i, mesh.j)
       IN  mesh' = [mesh EXCEPT
                      !.indices = @ \o QuadIndices(mesh.nu, mesh.nv, mesh.i, mesh.j),
                      !.i = nx.i, !.j = nx.j,
                      !.pc = IF nx.last THEN "return" ELSE "indices"]
    /\ UNCHANGED <<statusquo_metrics, healthy_metrics, intervention_metrics_raw,
                   intervention_metrics, rng, call, report, session_state, app>>

\* the return statement: counts derived from the lists
MeshReturn ==
    /\ mesh.pc = "return"
    /\ mesh' = [mesh EXCEPT !.num_vertices = Len(mesh.positions),
                            !.num_triangles = Len(mesh.indices) \div 3,
                            !.pc = "done"]
    /\ UNCHANGED <<statusquo_metrics, healthy_metrics, intervention_metrics_raw,
                   intervention_metrics, rng, call, report, session_state, app>>

----------------------------------------------------------------------------
(* Coupling Rule (app.py)                                                  *)

MetricOne == 2000

\* 0.5 * x; the metric values drawn below are multiples of 0.001, so exact
Half(x) == x \div 2

MetricsIdle == [velocity |-> 0, acceleration |-> 0, uncertainty |-> 0]

NotComputed == [computed |-> FALSE]

\* velocities, accelerations and uncertainties a hud record can carry
VelocityValues == {0, 1600, 2000, 2400}

AccelerationValues == {0, 20, 30, 400}

UncertaintyValues == {200, 360}

MetricsRecords ==
    [velocity : VelocityValues, acceleration : AccelerationValues,
     uncertainty : UncertaintyValues]

\* variant of da_coupled: the override keeps |da_raw| without the 0.5*|dv| floor
da_coupled_NoFloor(v0, a0, v1, a1_raw) ==
    LET dv == v1 - v0
        da_raw == a1_raw - a0
    IN  IF dv = 0 THEN 0
        ELSE IF Sign(dv) # Sign(da_raw)
             THEN Sign(dv) * Abs(da_raw)
             ELSE da_raw

\* variant of da_coupled: the override points against dv
da_coupled_Opposed(v0, a0, v1, a1_raw) ==
    LET dv == v1 - v0
        da_raw == a1_raw - a0
    IN  IF dv = 0 THEN 0
        ELSE IF Sign(dv) # Sign(da_raw)
             THEN (-Sign(dv)) * Max(Abs(da_raw), Half(Abs(dv)))
             ELSE da_raw

\* variant of da_coupled: "signs differ" tested as a negative product
da_coupled_StrictSign(v0, a0, v1, a1_raw) ==
    LET dv == v1 - v0
        da_raw == a1_raw - a0
    IN  IF dv = 0 THEN 0
        ELSE IF dv * da_raw < 0
             THEN Sign(dv) * Max(Abs(da_raw), Half(Abs(dv)))
             ELSE da_raw

da_coupled(v0, a0, v1, a1_raw) ==
    LET dv == v1 - v0
        da_raw == a1_raw - a0
    IN  IF dv = 0 THEN 0
        ELSE IF Sign(dv) # Sign(da_raw)
             THEN Sign(dv) * Max(Abs(da_raw), Half(Abs(dv)))
             ELSE da_raw

CoupledMetrics(sq, raw) ==
    [computed |-> TRUE,
     velocity |-> raw.velocity,
     acceleration |-> sq.acceleration
                      + da_coupled(sq.velocity, sq.acceleration,
                                   raw.velocity, raw.acceleration),
     uncertainty |-> raw.uncertainty]

CouplingInit ==
    /\ statusquo_metrics \in MetricsRecords
    /\ intervention_metrics_raw \in MetricsRecords
    /\ healthy_metrics \in [velocity : {800}, acceleration : {0, 10},
                            uncertainty : {200}]
    /\ intervention_metrics = NotComputed

ApplyCoupling ==
    /\ intervention_metrics = NotComputed
    /\ intervention_metrics' = CoupledMetrics(statusquo_metrics, intervention_metrics_raw)
    /\ UNCHANGED <<mesh, statusquo_metrics, healthy_metrics,
                   intervention_metrics_raw, rng, call, report, session_state, app>>

----------------------------------------------------------------------------
(* Process-wide generator, 32-bit seeds, the slider hash                   *)

RngMod == 16

LimbMod == 65536

\* a small non-negative integer as a 32-bit value <<hi, lo>>
Word32(n) == <<n \div LimbMod, n % LimbMod>>

\* generator state installed by np.random.seed(seed)
SeedState(seed) == (seed[1] * 7 + seed[2]) % RngMod

\* variant of NpRandomSeed: the call does not reseed, the generator carries on
NpRandomSeedKept(g, seed) == g

\* np.random.seed(seed): the state g left by earlier calls is replaced
NpRandomSeed(g, seed) == SeedState(seed)

\* one generator step
RngStep(g) == (5 * g + 3) % RngMod

\* np.random.uniform(lo, hi), drawn by stepping the generator from state g
Uniform(g, lo, hi) ==
    [value |-> lo + (((hi - lo) * RngStep(g)) \div RngMod), rng |-> RngStep(g)]

\* f"{value:.1f}" of a slider value in hundredths: <<sign character, tenths>>
\* (a negative value that rounds to zero still prints its sign, "-0.0")
FormatOneDecimal(c) == <<IF c < 0 THEN 1 ELSE 0, (Abs(c) + 5) \div 10>>

\* variant of SliderStr: the caffeine field is left out of the string
SliderStrNoCaffeine(sliders) ==
    <<FormatOneDecimal(sliders.sleep_change), FormatOneDecimal(sliders.vo2max_change),
      FormatOneDecimal(sliders.alcohol_reduction)>>

\* slider_str: the four formatted fields joined by "_" (nac_dose and
\* metformin_dose are commented out of the f-string)
SliderStr(sliders) ==
    <<FormatOneDecimal(sliders.sleep_change), FormatOneDecimal(sliders.vo2max_change),
      FormatOneDecimal(sliders.alcohol_reduction),
      FormatOneDecimal(sliders.caffeine_reduction)>>

\* int(hashlib.md5(slider_str.encode()).hexdigest()[:8], 16): a fixed function of
\* the string onto 32 bits, represented by a positional mixing of its fields
Md5Prefix(str) ==
    LET Field(i) == str[i][2] + 4001 * str[i][1]
        mix(w) == (w[1] * Field(1) + w[2] * Field(2) + w[3] * Field(3)
                   + (IF Len(str) >= 4 THEN w[4] * Field(4) ELSE 0) + w[5]) % LimbMod
    IN  <<mix(<<31, 127, 8191, 13, 40503>>), mix(<<257, 3, 17, 7919, 12345>>)>>

\* base_seed + slider_hash as an unbounded Python int: hi may exceed 16 bits
SeedSum(base_seed, slider_hash) ==
    LET lo == base_seed[2] + slider_hash[2]
    IN  <<base_seed[1] + slider_hash[1] + (lo \div LimbMod), lo % LimbMod>>

\* w % (2**32)
Mod32(w) == <<w[1] % LimbMod, w[2]>>

IsWord32(w) == w[1] \in 0..(LimbMod - 1) /\ w[2] \in 0..(LimbMod - 1)

----------------------------------------------------------------------------
(* Path Sampler                                                            *)

\* x % (2 * np.pi)
Wrap(x) == x % TwoPi

\* step ranges (lo, hi) of the three drift walks, hundredths of a radian
BaselineDu == <<-12, 18>>

BaselineDv == <<-10, 12>>

StatusQuoDu == <<15, 30>>

StatusQuoDv == <<10, 25>>

HealthyDu == <<8, 15>>

HealthyDv == <<5, 12>>

\* variant of NumControl: the floor of 5 control points is dropped
NumControlNoFloor(months) == months + 2

\* num_control = max(5, months + 2)
NumControl(months) == Max(5, months + 2)

\* num_samples = 30 + 10 * months
NumSamples(months) == 30 + 10 * months

\* the loop "for i in range(n)" of the drift walks: draw du, dv, append the
\* wrapped cumulative sum
RECURSIVE DriftWalk(_, _, _, _, _, _)
DriftWalk(n, us, vs, g, duRange, dvRange) ==
    IF n <= 0 THEN [u |-> us, v |-> vs, rng |-> g]
    ELSE LET du == Uniform(g, duRange[1], duRange[2])
             dv == Uniform(du.rng, dvRange[1], dvRange[2])
         IN  DriftWalk(n - 1,
                       Append(us, Wrap(us[Len(us)] + du.value)),
                       Append(vs, Wrap(vs[Len(vs)] + dv.value)),
                       dv.rng, duRange, dvRange)

\* CubicSpline(np.linspace(0, 1, len(control)), control)(np.linspace(0, 1, num_samples)):
\* an interpolant through the knots evaluated on the fine grid (taken linear
\* between neighbouring knots)
CubicSplineEval(control, num_samples) ==
    LET nc == Len(control)
        den == num_samples - 1
    IN  [k \in 1..num_samples |->
            LET pos == (k - 1) * (nc - 1)
                seg == Min(pos \div den, nc - 2)
                frac == pos - seg * den
            IN  control[seg + 1] + (((control[seg + 2] - control[seg + 1]) * frac) \div den)]

\* variant of PathDict: the two parameter arrays are exchanged before projecting
PathDictSwapped(u_arr, v_arr, num_points) ==
    LET xyz == [k \in 1..Len(u_arr) |->
                   torus_uv_to_xyz(v_arr[k], u_arr[k], MajorRadius, MinorRadius)]
    IN  [u |-> u_arr, v |-> v_arr,
         x |-> [k \in 1..Len(u_arr) |-> xyz[k].x],
         y |-> [k \in 1..Len(u_arr) |-> xyz[k].y],
         z |-> [k \in 1..Len(u_arr) |-> xyz[k].z],
         num_points |-> num_points]

\* the returned dict of a path: parameter arrays, their surface images, the count
PathDict(u_arr, v_arr, num_points) ==
    LET xyz == [k \in 1..Len(u_arr) |->
                   torus_uv_to_xyz(u_arr[k], v_arr[k], MajorRadius, MinorRadius)]
    IN  [u |-> u_arr, v |-> v_arr,
         x |-> [k \in 1..Len(u_arr) |-> xyz[k].x],
         y |-> [k \in 1..Len(u_arr) |-> xyz[k].y],
         z |-> [k \in 1..Len(u_arr) |-> xyz[k].z],
         num_points |-> num_points]

\* spline through the control points, resampled, wrapped and projected
SmoothPath(u_control, v_control, num_samples) ==
    LET cu == CubicSplineEval(u_control, num_samples)
        cv == CubicSplineEval(v_control, num_samples)
    IN  PathDict([k \in 1..num_samples |-> Wrap(cu[k])],
                 [k \in 1..num_samples |-> Wrap(cv[k])], num_samples)

baseline_points_on_surface(start_uv, weeks, seed, g) ==
    LET g0 == NpRandomSeed(g, seed)
        walk == DriftWalk(weeks - 1, <<start_uv[1]>>, <<start_uv[2]>>, g0,
                          BaselineDu, BaselineDv)
    IN  [ret |-> PathDict(walk.u, walk.v, weeks),
         locals |-> [seed |-> seed, u_vals |-> walk.u, v_vals |-> walk.v],
         rng |-> walk.rng]

\* the body shared by status_quo_path and healthy_population_path
DriftPath(start_uv, months, seed, g, duRange, dvRange) ==
    LET g0 == NpRandomSeed(g, seed)
        num_samples == NumSamples(months)
        num_control == NumControl(months)
        walk == DriftWalk(num_control - 1, <<start_uv[1]>>, <<start_uv[2]>>, g0,
                          duRange, dvRange)
    IN  [ret |-> SmoothPath(walk.u, walk.v, num_samples),
         locals |-> [seed |-> seed, num_samples |-> num_samples,
                     num_control |-> num_control,
                     u_control |-> walk.u, v_control |-> walk.v],
         rng |-> walk.rng]

status_quo_path(start_uv, months, seed, g) ==
    DriftPath(start_uv, months, seed, g, StatusQuoDu, StatusQuoDv)

healthy_population_path(start_uv, months, seed, g) ==
    DriftPath(start_uv, months, seed, g, HealthyDu, HealthyDv)

----------------------------------------------------------------------------
(* Intervention Model                                                      *)

FactorOne == 10000000

SliderKeys == {"sleep_change", "vo2max_change", "alcohol_reduction",
               "caffeine_reduction", "nac_dose", "metformin_dose"}

\* the dict substituted when sliders is None
DefaultSliders == [k \in SliderKeys |-> 0]

\* the keys read as sliders['key']: a KeyError when one is absent
SubscriptedKeys == {"sleep_change", "vo2max_change", "alcohol_reduction",
                    "caffeine_reduction"}

\* sliders.get(key, default)
DictGet(d, key, default) == IF key \in DOMAIN d THEN d[key] ELSE default

\* intervention_score in units of 1e-6:
\* 0.08*sleep + 0.006*vo2max + 0.004*alcohol + 0.0003*caffeine
\* + 0.0002*sliders.get('nac_dose', 0) + 0.0002*sliders.get('metformin_dose', 0)
intervention_score(sliders) ==
    sliders.sleep_change * 800 + sliders.vo2max_change * 60
    + sliders.alcohol_reduction * 40 + sliders.caffeine_reduction * 3
    + DictGet(sliders, "nac_dose", 0) * 2 + DictGet(sliders, "metformin_dose", 0) * 2

\* variant of NpClip: only the upper limit is applied
NpClipUpperOnly(x, lo, hi) == Min(x, hi)

\* np.clip(x, lo, hi)
NpClip(x, lo, hi) == Min(Max(x, lo), hi)

StepFactorMin == 3000000

\* variant of step_factor: the score weighs 0.7 instead of 0.6
step_factor_Steeper(sliders) ==
    NpClip(FactorOne - 7 * intervention_score(sliders), StepFactorMin, FactorOne)

\* step_factor = np.clip(1.0 - intervention_score * 0.6, 0.3, 1.0)
step_factor(sliders) ==
    NpClip(FactorOne - 6 * intervention_score(sliders), StepFactorMin, FactorOne)

\* curvature_factor = 1.0 + (caffeine_reduction / 400.0) * 0.3
curvature_factor(sliders) == FactorOne + 75 * sliders.caffeine_reduction

\* draw ranges of the intervention walk before scaling: (0.05, base_step_u),
\* (0.03, base_step_v), and the rotation angle (0, 2*pi)
InterventionDu == <<5, 22>>

InterventionDv == <<3, 18>>

InterventionAngle == <<0, TwoPi>>

\* step * step_factor
ScaleStep(x, f) == (x * f) \div FactorOne

\* angle * curvature_factor (the factor is cut to 1e-4 to stay within 32 bits)
ScaleAngle(a, f) == (a * (f \div 1000)) \div 10000

\* variant of InterventionSeed: the slider hash is left out of the seed
InterventionSeedBaseOnly(sliders, base_seed) == Mod32(base_seed)

\* seed derivation of intervention_path
InterventionSeed(sliders, base_seed) ==
    Mod32(SeedSum(base_seed, Md5Prefix(SliderStr(sliders))))

\* the loop "for i in range(num_control - 1)" of intervention_path
RECURSIVE InterventionWalk(_, _, _, _, _, _, _)
InterventionWalk(n, us, vs, g, sf, cf, draws) ==
    IF n <= 0 THEN [u |-> us, v |-> vs, rng |-> g, draws |-> draws]
    ELSE LET rdu == Uniform(g, InterventionDu[1], InterventionDu[2])
             rdv == Uniform(rdu.rng, InterventionDv[1], InterventionDv[2])
             ran == Uniform(rdv.rng, InterventionAngle[1], InterventionAngle[2])
             du == ScaleStep(rdu.value, sf)
             dv == ScaleStep(rdv.value, sf)
             angle == ScaleAngle(ran.value, cf)
             du_rot == (du * Cos(angle) - dv * Sin(angle)) \div TrigOne
             dv_rot == (du * Sin(angle) + dv * Cos(angle)) \div TrigOne
         IN  InterventionWalk(n - 1,
                              Append(us, Wrap(us[Len(us)] + du_rot)),
                              Append(vs, Wrap(vs[Len(vs)] + dv_rot)),
                              ran.rng, sf, cf,
                              Append(draws, [du_drawn |-> rdu.value, dv_drawn |-> rdv.value,
                                             du |-> du, dv |-> dv, angle |-> angle]))

\* (the f-string of slider_str is the first statement to subscript sliders: a
\* missing subscripted key raises there, before the generator is reseeded)
intervention_path(start_uv, months, sliders_arg, base_seed, g) ==
    LET sliders == IF sliders_arg = None THEN DefaultSliders ELSE sliders_arg
        slider_str == SliderStr(sliders)
        slider_hash == Md5Prefix(slider_str)
        seed == InterventionSeed(sliders, base_seed)
        g0 == NpRandomSeed(g, seed)
        num_samples == NumSamples(months)
        num_control == NumControl(months)
        sf == step_factor(sliders)
        cf == curvature_factor(sliders)
        walk == InterventionWalk(num_control - 1, <<start_uv[1]>>, <<start_uv[2]>>,
                                 g0, sf, cf, <<>>)
        path == SmoothPath(walk.u, walk.v, num_samples)
    IN  IF \E k \in SubscriptedKeys : k \notin DOMAIN sliders
        THEN [raised |-> "KeyError", rng |-> g]
        ELSE
        [ret |-> [u |-> path.u, v |-> path.v, x |-> path.x, y |-> path.y, z |-> path.z,
                  num_points |-> path.num_points,
                  step_factor |-> sf, curvature_factor |-> cf],
         locals |-> [sliders |-> sliders, slider_str |-> slider_str,
                     slider_hash |-> slider_hash, seed |-> seed,
                     num_samples |-> num_samples, num_control |-> num_control,
                     intervention_score |-> intervention_score(sliders),
                     u_control |-> walk.u, v_control |-> walk.v, draws |-> walk.draws],
         rng |-> walk.rng]

----------------------------------------------------------------------------
(* Blend Operator                                                          *)

\* alpha is carried in hundredths
AlphaOne == 100

\* fewest points interp1d(kind='cubic') accepts: a cubic B-spline interpolant
\* needs order + 1 data points and raises ValueError on fewer
Interp1dMinPoints == 4

\* interp1d(np.linspace(0, 1, len(knots)), knots, kind='cubic',
\*          fill_value='extrapolate')(np.linspace(0, 1, n)):
\* an interpolant through the knots evaluated on the grid of n points (both
\* grids span [0, 1], so no point is extrapolated)
Interp1dCubic(knots, n) ==
    IF n = 1 THEN <<knots[1]>> ELSE CubicSplineEval(knots, n)

\* variant of BlendPoint: the two weights are exchanged
BlendPointSwapped(a, b, alpha) == (alpha * a + (AlphaOne - alpha) * b) \div AlphaOne

\* (1 - alpha) * a + alpha * b
BlendPoint(a, b, alpha) == ((AlphaOne - alpha) * a + alpha * b) \div AlphaOne

blend_toward_healthy(interv_path, healthy_path, alpha) ==
    LET u_interv == interv_path.u
        v_interv == interv_path.v
        u_healthy == healthy_path.u
        v_healthy == healthy_path.v
        n == Len(u_interv)
        differ == Len(u_interv) # Len(u_healthy)
        u_healthy_matched == IF differ THEN Interp1dCubic(u_healthy, n) ELSE u_healthy
        v_healthy_matched == IF differ THEN Interp1dCubic(v_healthy, n) ELSE v_healthy
        u_blended == [k \in 1..n |-> Wrap(BlendPoint(u_interv[k], u_healthy_matched[k], alpha))]
        v_blended == [k \in 1..n |-> Wrap(BlendPoint(v_interv[k], v_healthy_matched[k], alpha))]
        path == PathDict(u_blended, v_blended, Len(u_blended))
    IN  IF differ /\ Len(u_healthy) < Interp1dMinPoints
        THEN [raised |-> "ValueError"]
        ELSE [ret |-> [u |-> path.u, v |-> path.v, x |-> path.x, y |-> path.y,
                       z |-> path.z, num_points |-> path.num_points, alpha |-> alpha],
              locals |-> [resampled |-> differ,
                          u_healthy_matched |-> u_healthy_matched,
                          v_healthy_matched |-> v_healthy_matched]]

----------------------------------------------------------------------------
(* Metrics Extractor                                                       *)

\* floor of the square root, by bisection on [lo, hi]
RECURSIVE SqrtBetween(_, _, _)
SqrtBetween(n, lo, hi) ==
    IF lo >= hi THEN lo
    ELSE LET mid == (lo + hi + 1) \div 2
         IN  IF mid * mid <= n THEN SqrtBetween(n, mid, hi)
             ELSE SqrtBetween(n, lo, mid - 1)

\* np.sqrt
Sqrt(n) == SqrtBetween(n, 0, Min(n, 46340))

\* np.diff
Diff(a) == [k \in 1..(Len(a) - 1) |-> a[k + 1] - a[k]]

\* np.sqrt(a**2 + b**2 + c**2), elementwise
Norms(a, b, c) == [k \in 1..Len(a) |-> Sqrt(a[k] * a[k] + b[k] * b[k] + c[k] * c[k])]

\* a[lo] + ... + a[hi], summed by halves
RECURSIVE SumRange(_, _, _)
SumRange(a, lo, hi) ==
    IF lo > hi THEN 0
    ELSE IF lo = hi THEN a[lo]
    ELSE LET mid == (lo + hi) \div 2
         IN  SumRange(a, lo, mid) + SumRange(a, mid + 1, hi)

\* np.sum of the first n elements
SumSeq(a, n) == SumRange(a, 1, n)

\* weights of gaussian_filter1d(sigma=3): exp(-k^2/18) for k = 0..12 (radius
\* int(4.0 * 3 + 0.5)), normalised, in units of 1e-5
GaussWeights == <<13298, 12580, 10649, 8066, 5467, 3316, 1800, 874, 380, 148, 51, 16, 4>>

GaussOne == 100000

\* index read for position i of an n-array under mode='reflect' (d c b a | a b c d | d c b a)
ReflectIndex(i, n) ==
    LET m == (i - 1) % (2 * n)
    IN  IF m < n THEN m + 1 ELSE 2 * n - m

gaussian_filter1d(a) ==
    LET n == Len(a)
        Tap(i, k) == GaussWeights[Abs(k) + 1] * a[ReflectIndex(i + k, n)]
        RowSum[i \in 1..n, k \in -12..12] ==
            IF k = -12 THEN Tap(i, k) ELSE RowSum[i, k - 1] + Tap(i, k)
    IN  [i \in 1..n |-> RowSum[i, 12] \div GaussOne]

\* fallbacks 0.1, 0.01, 0.1 and the jitter range (0.05, 0.15), in metric units
VelocityFallback == 200

\* variant of AccelerationFallback: the velocity constant is used
AccelerationFallbackAsVelocity == VelocityFallback

AccelerationFallback == 20

UncertaintyFallback == 200

\* variant of JitterRange: a jitter centred on zero
JitterRangeCentred == <<-100, 100>>

JitterRange == <<100, 300>>

\* hud_metrics_from_xyz(x, y, z) entered with the generator in state g; the
\* generator is stepped (never reseeded) when the jitter is drawn
hud_metrics_from_xyz(x, y, z, g) ==
    LET n == Len(x)
        dx == Diff(x)
        dy == Diff(y)
        dz == Diff(z)
        segment_lengths == Norms(dx, dy, dz)
        curvatures == Norms(Diff(dx), Diff(dy), Diff(dz))
        x_smooth == gaussian_filter1d(x)
        y_smooth == gaussian_filter1d(y)
        z_smooth == gaussian_filter1d(z)
        deviations == Norms([k \in 1..n |-> x[k] - x_smooth[k]],
                            [k \in 1..n |-> y[k] - y_smooth[k]],
                            [k \in 1..n |-> z[k] - z_smooth[k]])
        jitter == Uniform(g, JitterRange[1], JitterRange[2])
    IN  [ret |->
            [velocity |-> IF n > 1
                          THEN 2 * ((SumSeq(segment_lengths, n - 1) * 100) \div (n - 1))
                          ELSE VelocityFallback,
             acceleration |-> IF n > 2
                              THEN 2 * ((SumSeq(curvatures, n - 2) * 1000) \div (n - 2))
                              ELSE AccelerationFallback,
             uncertainty |-> IF n > 3
                             THEN ((SumSeq(deviations, n) * 100) \div n) + jitter.value
                             ELSE UncertaintyFallback],
         locals |-> [n |-> n, jitter |-> IF n > 3 THEN jitter.value ELSE 0],
         rng |-> IF n > 3 THEN jitter.rng ELSE g]

----------------------------------------------------------------------------
(* Engine calls                                                            *)

MaxMonths == 12

MaxWeeks == 3

\* horizons exercised: 0 (floor of 5 control points), the UI choices 3, 6 and
\* 12, and the largest modelled horizon
MonthsValues == {0, 3, 6, 12, MaxMonths}

\* the session start point (1.5, 0.8) and a point outside [0, 2*pi)
StartPoints == {<<150, 80>>, <<700, -50>>}

\* seeds passed to the drift walks
SeedValues == {Word32(42), Word32(100)}

\* base seeds: the default 44 and the largest 32-bit value
BaseSeedValues == {Word32(44), <<LimbMod - 1, LimbMod - 1>>}

\* slider magnitudes in hundredths (sleep -2, 0, 0.04, 4; VO2max 0, 50;
\* alcohol 0, 100; caffeine 0, 400; nac 0, 1800; metformin 0, 1500)
SliderGrid ==
    [sleep_change : {-200, 0, 4, 400}, vo2max_change : {0, 5000},
     alcohol_reduction : {0, 10000}, caffeine_reduction : {0, 40000},
     nac_dose : {0, 180000}, metformin_dose : {0, 150000}]

\* the keys on which two slider dicts differ (in value, or in being present)
DiffKeys(s1, s2) ==
    {k \in SliderKeys :
        IF k \in DOMAIN s1 /\ k \in DOMAIN s2 THEN s1[k] # s2[k]
        ELSE (k \in DOMAIN s1) # (k \in DOMAIN s2)}

\* the zero vector and the strongest vector of the grid
BaseVectors ==
    {DefaultSliders,
     [sleep_change |-> 400, vo2max_change |-> 5000, alcohol_reduction |-> 10000,
      caffeine_reduction |-> 40000, nac_dose |-> 180000, metformin_dose |-> 150000]}

\* the base vectors and every vector one slider change away from one of them
SliderVectors ==
    {s \in SliderGrid : \E b \in BaseVectors : Cardinality(DiffKeys(s, b)) <= 1}

\* the coordinate arrays of a returned path
Coordinates(ret) == [x |-> ret.x, y |-> ret.y, z |-> ret.z]

\* paths handed to the metrics extractor: no point at all, the historical
\* walks of 1, 2 and 3 points, four collinear points, a zigzag through negative
\* coordinates, and the shortest status-quo and healthy paths
HudInputs ==
    {Coordinates(baseline_points_on_surface(<<150, 80>>, w, Word32(42), 0).ret) : w \in 1..3}
    \cup {[x |-> <<>>, y |-> <<>>, z |-> <<>>]}
    \cup {[x |-> <<0, 10, 20, 30>>, y |-> <<0, 0, 0, 0>>, z |-> <<5, 5, 5, 5>>]}
    \cup {[x |-> <<-3000, 3000, -3000, 3000, -3000>>, y |-> <<0, -500, 0, -500, 0>>,
           z |-> <<-1150, 1150, -1150, 1150, -1150>>]}
    \cup {Coordinates(status_quo_path(<<150, 80>>, 0, Word32(43), 0).ret),
          Coordinates(healthy_population_path(<<0, 0>>, 0, Word32(100), 0).ret)}

\* slider dicts that lack one of the six keys
PartialSliders == {[k \in SliderKeys \ {m} |-> 0] : m \in SliderKeys}

\* paths handed to the blend as the path to move: intervention paths of 30
\* points, a historical path of 3 points that starts outside [0, 2*pi), and a
\* single point
BlendFirstPaths ==
    {intervention_path(<<150, 80>>, 0, s, Word32(44), 0).ret : s \in BaseVectors}
    \cup {baseline_points_on_surface(<<700, -50>>, 3, Word32(42), 0).ret,
          baseline_points_on_surface(<<150, 80>>, 1, Word32(42), 0).ret}

\* paths handed to the blend as the reference: healthy paths of 30 and 60
\* points, a status-quo path of 30 points, and a historical path of 3 points
BlendSecondPaths ==
    {healthy_population_path(<<0, 0>>, m, Word32(100), 0).ret : m \in {0, 3}}
    \cup {status_quo_path(<<150, 80>>, 0, Word32(43), 0).ret,
          baseline_points_on_surface(<<150, 80>>, 3, Word32(42), 0).ret}

\* blending weights: none, the weight used by the app (0.35), a half, and all
AlphaValues == {0, 35, 50, AlphaOne}

\* the calls a client of the engine can make
EngineCalls ==
    [fn : {"hud_metrics_from_xyz"}, args : HudInputs]
    \cup
    [fn : {"blend_toward_healthy"},
     args : [intervention_path : BlendFirstPaths, healthy_path : BlendSecondPaths,
             alpha : AlphaValues]]
    \cup
    [fn : {"baseline_points_on_surface"},
     args : [start_uv : StartPoints, weeks : 0..MaxWeeks, seed : SeedValues]]
    \cup
    [fn : {"status_quo_path", "healthy_population_path"},
     args : [start_uv : StartPoints, months : MonthsValues, seed : SeedValues]]
    \cup
    [fn : {"intervention_path"},
     args : [start_uv : StartPoints, months : MonthsValues,
             sliders : SliderVectors \cup PartialSliders \cup {None},
             base_seed : BaseSeedValues]]

EngineFrame ==
    UNCHANGED <<mesh, statusquo_metrics, healthy_metrics, intervention_metrics_raw,
                intervention_metrics, report, session_state, app>>

\* the function is entered with its arguments bound; the generator is as the
\* previous calls left it
Invoke ==
    /\ call.pc # "called"
    /\ \E c \in EngineCalls :
          call' = [pc |-> "called", fn |-> c.fn, args |-> c.args]
    /\ UNCHANGED rng
    /\ EngineFrame

Returned(res) ==
    [pc |-> "returned", fn |-> call.fn, args |-> call.args, entry_rng |-> rng,
     locals |-> res.locals, ret |-> res.ret]

Raised(res) ==
    [pc |-> "raised", fn |-> call.fn, args |-> call.args, entry_rng |-> rng,
     error |-> res.raised]

\* the call ends by returning its dict or by raising
Outcome(res) == IF "raised" \in DOMAIN res THEN Raised(res) ELSE Returned(res)

BaselineCall ==
    /\ call.pc = "called"
    /\ call.fn = "baseline_points_on_surface"
    /\ LET res == baseline_points_on_surface(call.args.start_uv, call.args.weeks,
                                             call.args.seed, rng)
       IN  call' = Returned(res) /\ rng' = res.rng
    /\ EngineFrame

StatusQuoCall ==
    /\ call.pc = "called"
    /\ call.fn = "status_quo_path"
    /\ LET res == status_quo_path(call.args.start_uv, call.args.months,
                                  call.args.seed, rng)
       IN  call' = Returned(res) /\ rng' = res.rng
    /\ EngineFrame

HealthyCall ==
    /\ call.pc = "called"
    /\ call.fn = "healthy_population_path"
    /\ LET res == healthy_population_path(call.args.start_uv, call.args.months,
                                          call.args.seed, rng)
       IN  call' = Returned(res) /\ rng' = res.rng
    /\ EngineFrame

InterventionCall ==
    /\ call.pc = "called"
    /\ call.fn = "intervention_path"
    /\ LET res == intervention_path(call.args.start_uv, call.args.months,
                                    call.args.sliders, call.args.base_seed, rng)
       IN  call' = Outcome(res) /\ rng' = res.rng
    /\ EngineFrame

HudMetricsCall ==
    /\ call.pc = "called"
    /\ call.fn = "hud_metrics_from_xyz"
    /\ LET res == hud_metrics_from_xyz(call.args.x, call.args.y, call.args.z, rng)
       IN  call' = Returned(res) /\ rng' = res.rng
    /\ EngineFrame

BlendCall ==
    /\ call.pc = "called"
    /\ call.fn = "blend_toward_healthy"
    /\ LET res == blend_toward_healthy(call.args.intervention_path,
                                       call.args.healthy_path, call.args.alpha)
       IN  call' = Outcome(res)
    /\ UNCHANGED rng
    /\ EngineFrame

\* the same call again, entered with the generator in state g
Replay(c, g) ==
    CASE c.fn = "baseline_points_on_surface" ->
             baseline_points_on_surface(c.args.start_uv, c.args.weeks, c.args.seed, g)
      [] c.fn = "status_quo_path" ->
             status_quo_path(c.args.start_uv, c.args.months, c.args.seed, g)
      [] c.fn = "healthy_population_path" ->
             healthy_population_path(c.args.start_uv, c.args.months, c.args.seed, g)
      [] c.fn = "intervention_path" ->
             intervention_path(c.args.start_uv, c.args.months, c.args.sliders,
                               c.args.base_seed, g)

----------------------------------------------------------------------------
(* Report data and the report collaborator (app.py)                        *)

\* script-level deltas of the third metrics row
delta_v == intervention_metrics.velocity - statusquo_metrics.velocity

delta_a == intervention_metrics.acceleration - statusquo_metrics.acceleration

delta_u == intervention_metrics.uncertainty - statusquo_metrics.uncertainty

\* variant of ChangePct: the ratio is not scaled to a percentage
ChangePctNoScale(delta, reference) ==
    IF reference # 0 THEN (delta * 100) \div reference ELSE 0

\* (delta / reference) * 100 if reference != 0 else 0, in hundredths of a percent
ChangePct(delta, reference) ==
    IF reference # 0 THEN (delta * 10000) \div reference ELSE 0

\* abs(velocity_change_pct) * 0.6 if delta_v < 0 else 0
ImprovementEstimate(velocity_change_pct, dv) ==
    IF dv < 0 THEN (Abs(velocity_change_pct) * 6) \div 10 ELSE 0

\* variant of TrajectoryStatus: the |delta_v| < 0.5 test comes first
TrajectoryStatusMinimalFirst(dv, da) ==
    IF Abs(dv) < MetricOne \div 2
    THEN "Minimal change - interventions may need adjustment"
    ELSE IF dv < 0 /\ da < 0
    THEN "Both velocity and acceleration decreasing - excellent trajectory improvement"
    ELSE IF dv < 0
    THEN "Velocity decreasing but acceleration stable - good progress"
    ELSE "Velocity increasing - requires intervention review"

\* the if / elif chain of trajectory_status (0.5 is MetricOne / 2)
TrajectoryStatus(dv, da) ==
    IF dv < 0 /\ da < 0
    THEN "Both velocity and acceleration decreasing - excellent trajectory improvement"
    ELSE IF dv < 0
    THEN "Velocity decreasing but acceleration stable - good progress"
    ELSE IF Abs(dv) < MetricOne \div 2
    THEN "Minimal change - interventions may need adjustment"
    ELSE "Velocity increasing - requires intervention review"

\* f"{value:.0f}" of a non-negative slider value in hundredths (ties to even)
FormatNoDecimal(c) ==
    LET q == c \div 100
        rem == c % 100
    IN  IF rem > 50 \/ (rem = 50 /\ q % 2 = 1) THEN q + 1 ELSE q

\* active_interventions: one line per non-zero UI slider, in the order sleep,
\* VO2max, alcohol, caffeine; a single placeholder line when there is none
ActiveInterventions(sl) ==
    LET lines ==
            (IF sl.sleep_change # 0
             THEN <<[label |-> "- Sleep adjustment",
                     value |-> FormatOneDecimal(sl.sleep_change)]>> ELSE <<>>)
            \o (IF sl.vo2max_change # 0
                THEN <<[label |-> "- VO2max improvement",
                        value |-> <<0, FormatNoDecimal(sl.vo2max_change)>>]>> ELSE <<>>)
            \o (IF sl.alcohol_reduction # 0
                THEN <<[label |-> "- Alcohol reduction",
                        value |-> <<0, FormatNoDecimal(sl.alcohol_reduction)>>]>> ELSE <<>>)
            \o (IF sl.caffeine_reduction # 0
                THEN <<[label |-> "- Caffeine reduction",
                        value |-> <<0, FormatNoDecimal(sl.caffeine_reduction)>>]>> ELSE <<>>)
    IN  IF lines = <<>>
        THEN <<[label |-> "- No interventions currently applied", value |-> <<0, 0>>]>>
        ELSE lines

\* slider settings of the UI when the button is pressed (nac_dose and
\* metformin_dose are fixed at 0 by the script)
ReportSliders ==
    {DefaultSliders,
     [DefaultSliders EXCEPT !.sleep_change = -200],
     [DefaultSliders EXCEPT !.alcohol_reduction = 1000],
     [DefaultSliders EXCEPT !.vo2max_change = 500, !.caffeine_reduction = 5000],
     [DefaultSliders EXCEPT !.sleep_change = 400, !.vo2max_change = 5000,
                            !.alcohol_reduction = 10000, !.caffeine_reduction = 40000]}

\* metrics_data, as built by the button handler from the script-level values
MetricsData ==
    LET velocity_change_pct == ChangePct(delta_v, statusquo_metrics.velocity)
        accel_change_pct == ChangePct(delta_a, statusquo_metrics.acceleration)
    IN  [statusquo |-> statusquo_metrics,
         healthy |-> healthy_metrics,
         interventions |-> intervention_metrics,
         delta_v |-> delta_v,
         delta_a |-> delta_a,
         delta_u |-> delta_u,
         velocity_change_pct |-> velocity_change_pct,
         accel_change_pct |-> accel_change_pct,
         improvement_estimate |-> ImprovementEstimate(velocity_change_pct, delta_v),
         trajectory_status |-> TrajectoryStatus(delta_v, delta_a)]

\* variant of InterventionsData: count is the number of summary lines
InterventionsDataLineCount(sl) ==
    [summary |-> ActiveInterventions(sl), count |-> Len(ActiveInterventions(sl))]

InterventionsData(sl) ==
    LET active_interventions == ActiveInterventions(sl)
    IN  [summary |-> active_interventions,
         count |-> Cardinality({i \in 1..Len(active_interventions) :
                      active_interventions[i].label # "- No interventions currently applied"})]

ReportFrame ==
    UNCHANGED <<mesh, statusquo_metrics, healthy_metrics, intervention_metrics_raw,
                intervention_metrics, rng, call, session_state, app>>

\* d[key] = value on a dict
SetItem(d, key, value) ==
    [k \in DOMAIN d \cup {key} |-> IF k = key THEN value ELSE d[k]]

\* the first statements of the button handler with the slider values sl:
\* report_generated is set, metrics_data and interventions_data are prepared
PrepareReport(sl) ==
    /\ session_state' = SetItem(session_state, "report_generated", TRUE)
    /\ report' = [pc |-> "prepared", sliders |-> sl,
                  metrics_data |-> MetricsData,
                  interventions_data |-> InterventionsData(sl)]
    /\ UNCHANGED <<mesh, statusquo_metrics, healthy_metrics, intervention_metrics_raw,
                   intervention_metrics, rng, call, app>>

\* the button is pressed after the script has computed and coupled the
\* metrics: the handler prepares metrics_data and interventions_data
PressReportButton ==
    /\ report.pc = "idle"
    /\ intervention_metrics # NotComputed
    /\ \E sl \in ReportSliders : PrepareReport(sl)

\* values os.getenv("ANTHROPIC_API_KEY") can give: unset, empty, a key
ApiKeyValues == {"unset", "", "sk-key"}

\* "not api_key"
Falsy(api_key) == api_key = "unset" \/ api_key = ""

ApiKeyMissing ==
    [error |-> "ANTHROPIC_API_KEY not found in environment variables. Please set your API key.",
     detail |-> ""]

\* variant of models_to_try: the fastest model first
models_to_try_Reversed ==
    <<"claude-3-haiku-20240307", "claude-3-sonnet-20240229", "claude-3-opus-20240229">>

models_to_try ==
    <<"claude-3-opus-20240229", "claude-3-sonnet-20240229", "claude-3-haiku-20240307">>

\* the value generate_clinical_report hands back: (report, error)
\* (tried: the model calls made so far, in order)
ReportDone(r, result) ==
    [pc |-> "done", sliders |-> r.sliders, metrics_data |-> r.metrics_data,
     interventions_data |-> r.interventions_data, result |-> result,
     tried |-> IF "tried" \in DOMAIN r THEN r.tried ELSE <<>>]

\* variant of CatchAll: the exception leaves generate_clinical_report
CatchAllReraise(r, e) ==
    [pc |-> "escaped", sliders |-> r.sliders, metrics_data |-> r.metrics_data,
     interventions_data |-> r.interventions_data, exception |-> e]

\* except Exception as e: return None, f"Error generating report: {str(e)}"
CatchAll(r, e) ==
    ReportDone(r, <<None, [error |-> "Error generating report: ", detail |-> e]>>)

\* generate_clinical_report is entered and reads the API key
ReportCheckKey ==
    /\ report.pc = "prepared"
    /\ \E api_key \in ApiKeyValues :
          report' = IF Falsy(api_key)
                    THEN ReportDone(report, <<None, ApiKeyMissing>>)
                    ELSE [pc |-> "client", sliders |-> report.sliders,
                          metrics_data |-> report.metrics_data,
                          interventions_data |-> report.interventions_data]
    /\ ReportFrame

\* anthropic.Anthropic(api_key=...) and the context f-string, inside the try
ReportCreateClient ==
    /\ report.pc = "client"
    /\ \E raises \in BOOLEAN :
          report' = IF raises
                    THEN CatchAll(report, "client error")
                    ELSE [pc |-> "models", sliders |-> report.sliders,
                          metrics_data |-> report.metrics_data,
                          interventions_data |-> report.interventions_data,
                          model_index |-> 1, message |-> None, last_error |-> None,
                          tried |-> <<>>]
    /\ ReportFrame

\* one iteration of "for model_name in models_to_try": the call either returns
\* a message (with or without a content block) and the loop is left, or raises
\* and the next model is tried
ReportTryModel ==
    /\ report.pc = "models"
    /\ report.model_index <= Len(models_to_try)
    /\ LET model_name == models_to_try[report.model_index]
       IN  \E outcome \in {"text", "no content", "raise"} :
              report' =
                  IF outcome = "raise"
                  THEN [report EXCEPT !.last_error = [model_error |-> model_name],
                                      !.model_index = @ + 1,
                                      !.tried = Append(@, model_name)]
                  ELSE [report EXCEPT !.message = [model |-> model_name,
                                                   content |-> IF outcome = "text"
                                                               THEN <<"report text">>
                                                               ELSE <<>>],
                                      !.model_index = Len(models_to_try) + 1,
                                      !.tried = Append(@, model_name)]
    /\ ReportFrame

\* after the loop: every model failed, or message.content[0].text is returned
\* (an empty content list raises IndexError inside the try)
ReportFinish ==
    /\ report.pc = "models"
    /\ report.model_index > Len(models_to_try)
    /\ report' =
          IF report.message = None
          THEN ReportDone(report,
                 <<None, [error |-> "Could not connect to any Claude model. Last error: ",
                          detail |-> report.last_error]>>)
          ELSE IF report.message.content = <<>>
          THEN CatchAll(report, "IndexError")
          ELSE ReportDone(report,
                 <<[text |-> report.message.content[1], model |-> report.message.model,
                    tried |-> report.tried], None>>)
    /\ ReportFrame

\* the handler shows the error (st.error) or the report text
ReportShow ==
    /\ report.pc = "done"
    /\ report' = [pc |-> "shown", sliders |-> report.sliders,
                  metrics_data |-> report.metrics_data,
                  interventions_data |-> report.interventions_data,
                  result |-> report.result, tried |-> report.tried,
                  shown |-> IF report.result[2] # None THEN "error" ELSE "report"]
    /\ ReportFrame

----------------------------------------------------------------------------
(* The application script (app.py): widgets, reruns, the path cache        *)

\* options of the "Prediction Time Horizon" select_slider
TimeHorizonOptions == {3, 6, 12}

\* its value on the first run
TimeHorizonDefault == 12

\* slider settings exercised in the script: all zero, and one hour more
\* sleep with a VO2max gain of 10
AppSliders ==
    {DefaultSliders,
     [DefaultSliders EXCEPT !.sleep_change = 100, !.vo2max_change = 1000]}

\* states in which the first run of a session can find the process-wide
\* generator (earlier sessions of the same process have drawn from it)
ProcessRngStart == {0, 5}

\* default seeds of the three drift walks and the base seed of intervention_path
BaselineSeed == Word32(42)

StatusQuoSeed == Word32(43)

HealthySeed == Word32(100)

\* variant of InterventionBaseSeed: the base seed is taken from whatever the
\* process-wide generator holds when the script runs
InterventionBaseSeedFromProcess == Word32(44 + rng)

InterventionBaseSeed == Word32(44)

\* weeks of history drawn
BaselineWeeks == 3

\* no earlier script run in this session
NoRun == [run |-> FALSE]

\* variant of RegenerateAlways: a cached path is kept once it exists
RegenerateWhenEmpty == FALSE

\* the "or True" of "if st.session_state.statusquo_cache is None or True"
RegenerateAlways == TRUE

\* any(v != 0 for v in interventions.values())
any_intervention(interventions) ==
    \E k \in DOMAIN interventions : interventions[k] # 0

\* variant of alpha_blend: the blend strength does not look at the sliders
alpha_blend_Always(interventions) ==
    IF any_intervention(interventions) THEN 35 ELSE 35

\* alpha_blend = 0.35 if any_intervention else 0.0
alpha_blend(interventions) == IF any_intervention(interventions) THEN 35 ELSE 0

\* the script as the first run of a session starts it
AppStart ==
    [pc |-> "rerun", time_horizon |-> TimeHorizonDefault,
     interventions |-> DefaultSliders, button |-> "none", entry_rng |-> 0,
     intervention_data_raw |-> None, intervention_data |-> None,
     alpha_blend |-> 0, resampled |-> FALSE, seed |-> None,
     generated_rng |-> 0, jitter |-> None, previous |-> NoRun]

\* what the run now displayed showed, kept to compare the next run with it
\* (rng_moved: the run left the generator in another state than it found it)
Displayed ==
    [run |-> TRUE, time_horizon |-> app.time_horizon,
     interventions |-> app.interventions, rng_moved |-> app.entry_rng # rng,
     seed |-> app.seed,
     statusquo_metrics |-> statusquo_metrics, healthy_metrics |-> healthy_metrics,
     intervention_metrics |-> intervention_metrics, jitter |-> app.jitter]

\* a widget interaction: Streamlit reruns the script from the top with the
\* new widget values; the script variables of the last run are gone, the
\* session state and the process-wide generator are kept
Rerun(time_horizon, interventions, button) ==
    /\ app.pc = "displayed"
    /\ app' = [AppStart EXCEPT !.time_horizon = time_horizon,
                               !.interventions = interventions,
                               !.button = button, !.entry_rng = rng,
                               !.previous = Displayed]
    /\ statusquo_metrics' = NotComputed
    /\ healthy_metrics' = NotComputed
    /\ intervention_metrics_raw' = NotComputed
    /\ intervention_metrics' = NotComputed
    /\ report' = ReportIdle
    /\ UNCHANGED <<mesh, rng, call, session_state>>

SelectHorizon ==
    \E time_horizon \in TimeHorizonOptions \ {app.time_horizon} :
        Rerun(time_horizon, app.interventions, "none")

MoveSliders ==
    \E interventions \in AppSliders \ {app.interventions} :
        Rerun(app.time_horizon, interventions, "none")

\* "Reset All Interventions": the sliders have no key and keep their values
PressReset == Rerun(app.time_horizon, app.interventions, "reset")

\* "Generate Clinical Report"
PressReport == Rerun(app.time_horizon, app.interventions, "report")

\* "if st.button(Reset ...): st.rerun()": the run stops before the paths
\* are generated and the script starts again with the button released
ScriptResetRerun ==
    /\ app.pc = "rerun"
    /\ app.button = "reset"
    /\ app' = [app EXCEPT !.button = "none"]
    /\ UNCHANGED <<mesh, statusquo_metrics, healthy_metrics, intervention_metrics_raw,
                   intervention_metrics, rng, call, report, session_state>>

\* "Generate trajectories": the three caches, the raw intervention path and
\* the blend
ScriptGenerate ==
    /\ app.pc = "rerun"
    /\ app.button # "reset"
    /\ LET time_horizon == app.time_horizon
           interventions == app.interventions
           fill_baseline == session_state.baseline_cache = None
           baseline == baseline_points_on_surface(session_state.start_uv,
                                                  BaselineWeeks, BaselineSeed, rng)
           g1 == IF fill_baseline THEN baseline.rng ELSE rng
           fill_statusquo == session_state.statusquo_cache = None \/ RegenerateAlways
           statusquo == status_quo_path(session_state.start_uv, time_horizon,
                                        StatusQuoSeed, g1)
           g2 == IF fill_statusquo THEN statusquo.rng ELSE g1
           fill_healthy == session_state.healthy_cache = None \/ RegenerateAlways
           healthy == healthy_population_path(<<0, 0>>, time_horizon, HealthySeed, g2)
           g3 == IF fill_healthy THEN healthy.rng ELSE g2
           healthy_cache == IF fill_healthy THEN healthy.ret
                            ELSE session_state.healthy_cache
           intervention_data_raw ==
               intervention_path(session_state.start_uv, time_horizon, interventions,
                                 InterventionBaseSeed, g3)
           alpha == alpha_blend(interventions)
           blended == blend_toward_healthy(intervention_data_raw.ret, healthy_cache, alpha)
           failed == "raised" \in DOMAIN blended
       IN  /\ session_state' =
                 [session_state EXCEPT
                     !.baseline_cache = IF fill_baseline THEN baseline.ret ELSE @,
                     !.statusquo_cache = IF fill_statusquo THEN statusquo.ret ELSE @,
                     !.healthy_cache = healthy_cache]
           /\ rng' = intervention_data_raw.rng
           /\ app' = [app EXCEPT
                         !.pc = IF failed THEN "failed" ELSE "generated",
                         !.intervention_data_raw = intervention_data_raw.ret,
                         !.intervention_data = IF failed THEN None ELSE blended.ret,
                         !.alpha_blend = alpha,
                         !.resampled = IF failed THEN TRUE ELSE blended.locals.resampled,
                         !.seed = intervention_data_raw.locals.seed,
                         !.generated_rng = intervention_data_raw.rng]
    /\ UNCHANGED <<mesh, statusquo_metrics, healthy_metrics, intervention_metrics_raw,
                   intervention_metrics, call, report>>

\* "Calculate HUD metrics from paths" and the coupling rule: three hud calls
\* in the order status quo, healthy, intervention, each drawing its jitter
\* from the process-wide generator
ScriptMetrics ==
    /\ app.pc = "generated"
    /\ LET statusquo_data == session_state.statusquo_cache
           healthy_data == session_state.healthy_cache
           intervention_data == app.intervention_data
           sq == hud_metrics_from_xyz(statusquo_data.x, statusquo_data.y,
                                      statusquo_data.z, rng)
           he == hud_metrics_from_xyz(healthy_data.x, healthy_data.y,
                                      healthy_data.z, sq.rng)
           iv == hud_metrics_from_xyz(intervention_data.x, intervention_data.y,
                                      intervention_data.z, he.rng)
       IN  /\ statusquo_metrics' = sq.ret
           /\ healthy_metrics' = he.ret
           /\ intervention_metrics_raw' = iv.ret
           /\ intervention_metrics' = CoupledMetrics(sq.ret, iv.ret)
           /\ rng' = iv.rng
           /\ app' = [app EXCEPT
                         !.pc = IF app.button = "report" THEN "report" ELSE "displayed",
                         !.jitter = [statusquo |-> sq.locals.jitter,
                                     healthy |-> he.locals.jitter,
                                     intervention |-> iv.locals.jitter]]
    /\ UNCHANGED <<mesh, call, report, session_state>>

\* the report button was pressed for this run: its handler starts
ScriptReportButton ==
    /\ app.pc = "report"
    /\ report.pc = "idle"
    /\ PrepareReport(app.interventions)

\* the handler has shown the report or the error: the run is over
ScriptEnd ==
    /\ app.pc = "report"
    /\ report.pc = "shown"
    /\ app' = [app EXCEPT !.pc = "displayed"]
    /\ UNCHANGED <<mesh, statusquo_metrics, healthy_metrics, intervention_metrics_raw,
                   intervention_metrics, rng, call, report, session_state>>

----------------------------------------------------------------------------
(* The step-size factor over the slider grid of the user interface         *)

\* st.slider values: sleep -2..4 step 0.5, VO2max 0..50 step 5, alcohol
\* 0..100 step 10, caffeine 0..400 step 50 (hundredths)
SleepChoices == {50 * i : i \in -4..8}

Vo2maxChoices == {500 * i : i \in 0..10}

AlcoholChoices == {1000 * i : i \in 0..10}

CaffeineChoices == {5000 * i : i \in 0..8}

\* every interventions dict the widgets can produce (nac_dose and
\* metformin_dose are set to 0 by the script)
UiSliders ==
    {[sleep_change |-> a, vo2max_change |-> b, alcohol_reduction |-> c,
      caffeine_reduction |-> d, nac_dose |-> 0, metformin_dose |-> 0] :
        a \in SleepChoices, b \in Vo2maxChoices, c \in AlcoholChoices,
        d \in CaffeineChoices}

\* the "intervention effects" statements of intervention_path on one dict
StepFactorCall ==
    /\ call.pc = "invoked"
    /\ call.fn = "step_factor"
    /\ call' = [pc |-> "returned", fn |-> call.fn, args |-> call.args,
                entry_rng |-> rng,
                ret |-> [intervention_score |-> intervention_score(call.args.sliders),
                         step_factor |-> step_factor(call.args.sliders),
                         curvature_factor |-> curvature_factor(call.args.sliders)]]
    /\ UNCHANGED rng
    /\ EngineFrame

----------------------------------------------------------------------------
(* Specifications                                                          *)

SpecMeshInit ==
    /\ MeshInit
    /\ statusquo_metrics = MetricsIdle
    /\ healthy_metrics = MetricsIdle
    /\ intervention_metrics_raw = MetricsIdle
    /\ intervention_metrics = NotComputed
    /\ rng = 0
    /\ call = NoCall
    /\ report = ReportIdle
    /\ session_state = SessionStart
    /\ app = AppIdle

SpecMeshNext == MeshAddVertex \/ MeshAddQuad \/ MeshReturn

SpecMesh == SpecMeshInit /\ [][SpecMeshNext]_vars

SpecCouplingInit ==
    /\ CouplingInit
    /\ mesh = MeshIdle
    /\ rng = 0
    /\ call = NoCall
    /\ report = ReportIdle
    /\ session_state = SessionStart
    /\ app = AppIdle

SpecCouplingNext == ApplyCoupling

SpecCoupling == SpecCouplingInit /\ [][SpecCouplingNext]_vars

SpecReportInit ==
    /\ CouplingInit
    /\ mesh = MeshIdle
    /\ rng = 0
    /\ call = NoCall
    /\ report = ReportIdle
    /\ session_state = SessionStart
    /\ app = AppIdle

SpecReportNext ==
    \/ ApplyCoupling
    \/ PressReportButton
    \/ ReportCheckKey \/ ReportCreateClient \/ ReportTryModel \/ ReportFinish
    \/ ReportShow

SpecReport == SpecReportInit /\ [][SpecReportNext]_vars

SpecAppInit ==
    /\ mesh = MeshIdle
    /\ statusquo_metrics = NotComputed
    /\ healthy_metrics = NotComputed
    /\ intervention_metrics_raw = NotComputed
    /\ intervention_metrics = NotComputed
    /\ rng \in ProcessRngStart
    /\ call = NoCall
    /\ report = ReportIdle
    /\ session_state = SessionStart
    /\ app = [AppStart EXCEPT !.entry_rng = rng]

SpecAppNext ==
    \/ SelectHorizon \/ MoveSliders \/ PressReset \/ PressReport
    \/ ScriptResetRerun \/ ScriptGenerate \/ ScriptMetrics
    \/ ScriptReportButton
    \/ ReportCheckKey \/ ReportCreateClient \/ ReportTryModel \/ ReportFinish
    \/ ReportShow
    \/ ScriptEnd

SpecApp == SpecAppInit /\ [][SpecAppNext]_vars

SpecStepFactorInit ==
    /\ mesh = MeshIdle
    /\ statusquo_metrics = MetricsIdle
    /\ healthy_metrics = MetricsIdle
    /\ intervention_metrics_raw = MetricsIdle
    /\ intervention_metrics = NotComputed
    /\ rng = 0
    /\ call \in {[pc |-> "invoked", fn |-> "step_factor", args |-> [sliders |-> sl]] :
                    sl \in UiSliders}
    /\ report = ReportIdle
    /\ session_state = SessionStart
    /\ app = AppIdle

SpecStepFactorNext == StepFactorCall

SpecStepFactor == SpecStepFactorInit /\ [][SpecStepFactorNext]_vars

Init ==
    /\ mesh = MeshIdle
    /\ statusquo_metrics = MetricsIdle
    /\ healthy_metrics = MetricsIdle
    /\ intervention_metrics_raw = MetricsIdle
    /\ intervention_metrics = NotComputed
    /\ rng = 0
    /\ call = NoCall
    /\ report = ReportIdle
    /\ session_state = SessionStart
    /\ app = AppIdle

Next ==
    \/ Invoke
    \/ BaselineCall \/ StatusQuoCall \/ HealthyCall \/ InterventionCall
    \/ BlendCall
    \/ HudMetricsCall

Spec == Init /\ [][Next]_vars


----------------------------------------------------------------------------
(* Properties of the Coupling Rule (SpecCoupling)                          *)

Coupled == intervention_metrics.computed

dv_shown == intervention_metrics_raw.velocity - statusquo_metrics.velocity

da_raw_shown == intervention_metrics_raw.acceleration - statusquo_metrics.acceleration

\* app.py row 3: delta_a = intervention_metrics['acceleration'] - statusquo_metrics['acceleration']
delta_a_shown == intervention_metrics.acceleration - statusquo_metrics.acceleration

NonNegative(m) == m.velocity >= 0 /\ m.acceleration >= 0 /\ m.uncertainty >= 0

\* C1: the displayed intervention acceleration is a0 + da, where da = 0 when
\* dv = 0, da = sign(dv) * max(|da_raw|, 0.5*|dv|) when dv # 0 and the signs of
\* dv and da_raw differ (da_raw = 0 included), and da = da_raw otherwise;
\* velocity and uncertainty pass through; (1.0, 0.01) against (0.8, 0.015)
\* displays -0.09.
C1_CouplingRule ==
    Coupled =>
        /\ intervention_metrics.velocity = intervention_metrics_raw.velocity
        /\ intervention_metrics.uncertainty = intervention_metrics_raw.uncertainty
        /\ dv_shown = 0 => intervention_metrics.acceleration = statusquo_metrics.acceleration
        /\ (dv_shown > 0 /\ da_raw_shown <= 0) =>
               /\ 2 * Abs(da_raw_shown) >= Abs(dv_shown) => delta_a_shown = Abs(da_raw_shown)
               /\ 2 * Abs(da_raw_shown) < Abs(dv_shown) => 2 * delta_a_shown = Abs(dv_shown)
        /\ (dv_shown < 0 /\ da_raw_shown >= 0) =>
               /\ 2 * Abs(da_raw_shown) >= Abs(dv_shown) => delta_a_shown = -Abs(da_raw_shown)
               /\ 2 * Abs(da_raw_shown) < Abs(dv_shown) => 2 * delta_a_shown = -Abs(dv_shown)
        /\ (dv_shown > 0 /\ da_raw_shown > 0) \/ (dv_shown < 0 /\ da_raw_shown < 0) =>
               intervention_metrics.acceleration = intervention_metrics_raw.acceleration
        /\ ( /\ statusquo_metrics.velocity = MetricOne
             /\ statusquo_metrics.acceleration = 20
             /\ intervention_metrics_raw.velocity = 1600
             /\ intervention_metrics_raw.acceleration = 30 ) =>
               intervention_metrics.acceleration = -180

\* the concrete case of the rule has been coupled
C1_Witness ==
    /\ Coupled
    /\ statusquo_metrics.velocity = MetricOne
    /\ statusquo_metrics.acceleration = 20
    /\ intervention_metrics_raw.velocity = 1600
    /\ intervention_metrics_raw.acceleration = 30

\* C2: after coupling, dv # 0 gives a displayed acceleration delta that is
\* non-zero with the sign of dv; an overridden delta has magnitude at least
\* |da_raw| and at least 0.5*|dv|; dv = 0 gives a displayed delta of exactly 0.
C2_SameDirection ==
    Coupled =>
        /\ dv_shown # 0 => (delta_a_shown # 0 /\ Sign(delta_a_shown) = Sign(dv_shown))
        /\ (dv_shown # 0 /\ Sign(dv_shown) # Sign(da_raw_shown)) =>
               /\ Abs(delta_a_shown) >= Abs(da_raw_shown)
               /\ 2 * Abs(delta_a_shown) >= Abs(dv_shown)
        /\ dv_shown = 0 => delta_a_shown = 0

\* a velocity change with no raw acceleration change has been coupled
C2_Witness == Coupled /\ dv_shown # 0 /\ da_raw_shown = 0

\* C3 as stated: every record handed on, the coupled one included, is
\* non-negative in all three fields.
C3_AllRecordsNonNegative ==
    Coupled =>
        /\ NonNegative(statusquo_metrics)
        /\ NonNegative(healthy_metrics)
        /\ NonNegative(intervention_metrics)

\* C3 (amended): status-quo and healthy records are non-negative, and so are
\* the coupled record's velocity and uncertainty; the coupled acceleration is
\* negative exactly when dv < 0, the rule overrides the raw delta, and the
\* forced magnitude max(|da_raw|, 0.5*|dv|) exceeds a0.
C3_NonNegativeExceptOverride ==
    Coupled =>
        /\ NonNegative(statusquo_metrics)
        /\ NonNegative(healthy_metrics)
        /\ intervention_metrics.velocity >= 0
        /\ intervention_metrics.uncertainty >= 0
        /\ intervention_metrics.acceleration < 0 <=>
               /\ dv_shown < 0
               /\ da_raw_shown >= 0
               /\ Max(2 * Abs(da_raw_shown), Abs(dv_shown)) > 2 * statusquo_metrics.acceleration

\* a coupled record with a negative displayed acceleration
C3_Witness == Coupled /\ intervention_metrics.acceleration < 0

----------------------------------------------------------------------------
(* Properties of the path engine (Spec)                                    *)

ReturnedFrom(fns) == call.pc = "returned" /\ call.fn \in fns

InterventionReturned == ReturnedFrom({"intervention_path"})

SmoothPathFns == {"status_quo_path", "healthy_population_path", "intervention_path"}

PathFns == SmoothPathFns \cup {"baseline_points_on_surface"}

ActiveKeys == {"sleep_change", "vo2max_change", "alcohol_reduction", "caffeine_reduction"}

InertKeys == {"nac_dose", "metformin_dose"}

\* the slider dicts of the grid that differ from s in exactly the one key k
OneChange(s, k) == {s2 \in SliderGrid : DiffKeys(s2, s) = {k}}

\* C5: a path function returns the same Path for the same arguments whatever
\* state earlier calls left the generator in (as in a fresh process, and as if
\* called again now), and the intervention seed is (base_seed + hash) mod 2^32,
\* inside [0, 2^32).
C5_DeterministicPaths ==
    ReturnedFrom(PathFns) =>
        /\ \A g \in {0, rng} : Replay(call, g).ret = call.ret
        /\ call.fn = "intervention_path" =>
               LET base == call.args.base_seed
                   hash == call.locals.slider_hash
                   lo == base[2] + hash[2]
                   carry == IF lo >= LimbMod THEN 1 ELSE 0
               IN  /\ IsWord32(call.locals.seed)
                   /\ call.locals.seed[2] = lo - carry * LimbMod
                   /\ call.locals.seed[1] = (base[1] + hash[1] + carry) % LimbMod

\* an intervention path returned after other calls had left the generator in a
\* state that is neither the initial one nor the one this call seeds
C5_Witness ==
    /\ InterventionReturned
    /\ call.entry_rng # 0
    /\ call.entry_rng # SeedState(call.locals.seed)

\* C6 as stated: changing any single one of the six sliders changes the
\* hashed string.
C6_AnySliderChangesString ==
    InterventionReturned =>
        \A k \in SliderKeys : \A s2 \in OneChange(call.locals.sliders, k) :
            SliderStr(s2) # call.locals.slider_str

\* C6 (amended): changing one of the four active sliders by 0.1 or more changes
\* the hashed string, and with it the seed unless the hashes collide; changing
\* nac_dose or metformin_dose changes neither the string nor the seed.
C6_ActiveSliderChangesString ==
    InterventionReturned =>
        /\ \A k \in ActiveKeys : \A s2 \in OneChange(call.locals.sliders, k) :
               Abs(s2[k] - call.locals.sliders[k]) >= 10 =>
                   /\ SliderStr(s2) # call.locals.slider_str
                   /\ Md5Prefix(SliderStr(s2)) # call.locals.slider_hash =>
                          InterventionSeed(s2, call.args.base_seed) # call.locals.seed
        /\ \A k \in InertKeys : \A s2 \in OneChange(call.locals.sliders, k) :
               /\ SliderStr(s2) = call.locals.slider_str
               /\ InterventionSeed(s2, call.args.base_seed) = call.locals.seed

\* an intervention path returned for sliders with a non-zero caffeine value
C6_Witness ==
    /\ InterventionReturned
    /\ call.locals.sliders.caffeine_reduction # 0
    /\ call.locals.slider_str[4][2] # 0

\* C7 as stated: a change of nac_dose or metformin_dose alone changes neither
\* the seed, nor step_factor, nor curvature_factor, nor the returned Path.
C7_DrugFieldsInert ==
    InterventionReturned =>
        \A s2 \in SliderGrid :
            (DiffKeys(s2, call.locals.sliders) # {}
             /\ DiffKeys(s2, call.locals.sliders) \subseteq InertKeys) =>
                /\ InterventionSeed(s2, call.args.base_seed) = call.locals.seed
                /\ curvature_factor(s2) = call.ret.curvature_factor
                /\ step_factor(s2) = call.ret.step_factor
                /\ intervention_path(call.args.start_uv, call.args.months, s2,
                                     call.args.base_seed, rng).ret = call.ret

\* C8: step_factor = clamp(1 - 0.6*interventionScore, 0.3, 1.0) and lies in
\* [0.3, 1.0]; curvature_factor = 1 + 0.3*caffeine_reduction/400 whatever the
\* other sliders are; the zero vector gives 1.0 for both.
C8_FactorsClamped ==
    InterventionReturned =>
        LET raw == FactorOne - 6 * call.locals.intervention_score
            sl == call.locals.sliders
        IN  /\ call.ret.step_factor >= 3 * (FactorOne \div 10)
            /\ call.ret.step_factor <= FactorOne
            /\ raw < 3 * (FactorOne \div 10) => call.ret.step_factor = 3 * (FactorOne \div 10)
            /\ raw > FactorOne => call.ret.step_factor = FactorOne
            /\ (raw >= 3 * (FactorOne \div 10) /\ raw <= FactorOne) => call.ret.step_factor = raw
            /\ 400 * (call.ret.curvature_factor - FactorOne)
                   = 3 * (FactorOne \div 1000) * sl.caffeine_reduction
            /\ \A s2 \in SliderGrid :
                   s2.caffeine_reduction = sl.caffeine_reduction =>
                       curvature_factor(s2) = call.ret.curvature_factor
            /\ sl = DefaultSliders =>
                   call.ret.step_factor = FactorOne /\ call.ret.curvature_factor = FactorOne

\* an intervention path returned with the lower clamp binding
C8_Witness ==
    /\ InterventionReturned
    /\ call.ret.step_factor = StepFactorMin
    /\ FactorOne - 6 * call.locals.intervention_score < StepFactorMin

\* C9 as stated: with the zero vector the intervention walk draws its steps
\* from the status-quo ranges, unscaled, and turns each step by a negligible
\* angle (taken here as at most 0.05 rad).
C9_ZeroVectorWalksLikeStatusQuo ==
    (InterventionReturned /\ call.locals.sliders = DefaultSliders) =>
        /\ call.ret.step_factor = FactorOne
        /\ InterventionDu = StatusQuoDu
        /\ InterventionDv = StatusQuoDv
        /\ \A i \in 1..Len(call.locals.draws) :
               LET d == call.locals.draws[i]
               IN  /\ d.du >= StatusQuoDu[1] /\ d.du <= StatusQuoDu[2]
                   /\ d.dv >= StatusQuoDv[1] /\ d.dv <= StatusQuoDv[2]
                   /\ d.angle <= 5

\* C10: the three smooth path functions use max(5, months + 2) control points
\* (so at least 5) and return exactly 30 + 10*months dense points; 14 and 150
\* for months = 12.
C10_ControlAndSampleCounts ==
    ReturnedFrom(SmoothPathFns) =>
        LET months == call.args.months
            floor5 == IF months + 2 > 5 THEN months + 2 ELSE 5
        IN  /\ Len(call.locals.u_control) = floor5
            /\ Len(call.locals.v_control) = floor5
            /\ Len(call.locals.u_control) >= 5
            /\ Len(call.ret.u) = 30 + 10 * months
            /\ Len(call.ret.v) = 30 + 10 * months
            /\ Len(call.ret.x) = 30 + 10 * months
            /\ call.ret.num_points = 30 + 10 * months
            /\ months = 12 =>
                   Len(call.locals.u_control) = 14 /\ Len(call.ret.u) = 150

\* a twelve-month intervention path has been returned
C10_Witness ==
    /\ InterventionReturned
    /\ call.args.months = 12
    /\ Len(call.ret.u) = 150

AllPathFns == PathFns \cup {"blend_toward_healthy"}

\* the call has ended, by a return or by an exception
Ended(fn) == call.fn = fn /\ call.pc \in {"returned", "raised"}

InTurn(a) == a >= 0 /\ a < TwoPi

\* C25 as stated: a call to one of the four path functions or to
\* hud_metrics_from_xyz leaves the process-wide state, the generator included,
\* as it found it.
C25_CallsLeaveGeneratorUnchanged ==
    ReturnedFrom(PathFns \cup {"hud_metrics_from_xyz"}) => rng = call.entry_rng

\* C11 as stated: every returned Path has u, v, x, y, z of one length and
\* num_points equal to it; the historical path has exactly `weeks` points (any
\* weeks >= 0), the first being the start point.
C11_ArraysAndCountAgree ==
    ReturnedFrom(AllPathFns) =>
        LET n == Len(call.ret.u)
        IN  /\ Len(call.ret.v) = n
            /\ Len(call.ret.x) = n
            /\ Len(call.ret.y) = n
            /\ Len(call.ret.z) = n
            /\ call.ret.num_points = n
            /\ call.fn = "baseline_points_on_surface" =>
                   /\ n = call.args.weeks
                   /\ n >= 1 => /\ call.ret.u[1] = call.args.start_uv[1]
                                /\ call.ret.v[1] = call.args.start_uv[2]

\* C12 as stated: whatever the start point, every u and v of every returned
\* Path lies in [0, 2*pi).
C12_ParametersInRange ==
    ReturnedFrom(AllPathFns) =>
        \A k \in 1..Len(call.ret.u) : InTurn(call.ret.u[k]) /\ InTurn(call.ret.v[k])

\* distance of a 3D point from the circle of radius R in the plane z = 0
TubeDistance(p) ==
    LET rho == Sqrt(p.x * p.x + p.y * p.y)
    IN  Sqrt((rho - MajorRadius) * (rho - MajorRadius) + p.z * p.z)

\* C13: every 3D point of every returned Path is the torus image of the
\* parameter point at the same index, x = (R + r cos v) cos u,
\* y = (R + r cos v) sin u, z = r sin v, with the radii of the mesh vertices,
\* and satisfies (sqrt(x^2 + y^2) - R)^2 + z^2 = r^2 (to within 0.005 in the
\* distance from the tube axis), as the vertices of the mesh do.
C13_PointsOnSurface ==
    ReturnedFrom(AllPathFns) =>
        /\ Len(call.ret.x) = Len(call.ret.u)
        /\ \A k \in 1..Len(call.ret.u) :
               LET u == call.ret.u[k]
                   v == call.ret.v[k]
                   x == call.ret.x[k]
                   y == call.ret.y[k]
                   z == call.ret.z[k]
                   ring == MajorRadius + ((MinorRadius * Cos(v)) \div TrigOne)
               IN  /\ x = (ring * Cos(u)) \div TrigOne
                   /\ y = (ring * Sin(u)) \div TrigOne
                   /\ z = (MinorRadius * Sin(v)) \div TrigOne
                   /\ Abs(TubeDistance([x |-> x, y |-> y, z |-> z]) - MinorRadius) <= 5
        /\ \A i, j \in 0..(MinSegments - 1) :
               Abs(TubeDistance(MeshVertex(MinSegments, MinSegments, i, j).position)
                   - MinorRadius) <= 5

\* a blended path of 30 points has been returned
C13_Witness ==
    /\ ReturnedFrom({"blend_toward_healthy"})
    /\ Len(call.ret.x) = 30
    /\ call.ret.alpha = 35

HudEnded == Ended("hud_metrics_from_xyz")

HudReturned == ReturnedFrom({"hud_metrics_from_xyz"})

\* np.sqrt(dx**2 + dy**2 + dz**2) between points i and j of the call's arrays
SegmentLength(i, j) ==
    LET dx == call.args.x[j] - call.args.x[i]
        dy == call.args.y[j] - call.args.y[i]
        dz == call.args.z[j] - call.args.z[i]
    IN  Sqrt(dx * dx + dy * dy + dz * dz)

\* C14: hud_metrics_from_xyz returns (never raises) on a short path; N < 2
\* gives velocity 0.1, N < 3 acceleration 0.01, N < 4 uncertainty 0.1 (and no
\* jitter is drawn); N = 2 gives the computed velocity, N = 3 the computed
\* velocity and acceleration.
C14_ShortPathFallbacks ==
    HudEnded =>
        /\ call.pc = "returned"
        /\ LET n == Len(call.args.x)
               m == call.ret
           IN  /\ n < 2 => m.velocity = MetricOne \div 10
               /\ n < 3 => m.acceleration = MetricOne \div 100
               /\ n < 4 => m.uncertainty = MetricOne \div 10 /\ rng = call.entry_rng
               /\ n = 1 => m = [velocity |-> 200, acceleration |-> 20, uncertainty |-> 200]
               /\ n = 2 => m.velocity = 2 * (SegmentLength(1, 2) * 100)
               /\ n = 3 =>
                      /\ m.velocity
                             = 2 * (((SegmentLength(1, 2) + SegmentLength(2, 3)) * 100) \div 2)
                      /\ LET ddx == call.args.x[3] - 2 * call.args.x[2] + call.args.x[1]
                             ddy == call.args.y[3] - 2 * call.args.y[2] + call.args.y[1]
                             ddz == call.args.z[3] - 2 * call.args.z[2] + call.args.z[1]
                         IN  m.acceleration
                                 = 2 * (Sqrt(ddx * ddx + ddy * ddy + ddz * ddz) * 1000)

\* the metrics of a two-point path, with a computed velocity other than 0.1
C14_Witness ==
    /\ HudReturned
    /\ Len(call.args.x) = 2
    /\ call.ret.velocity # VelocityFallback
    /\ call.ret.acceleration = AccelerationFallback

\* C15: velocity, acceleration and uncertainty are >= 0; for N >= 4 the
\* uncertainty is 50 times the mean raw-vs-smoothed deviation plus a jitter in
\* [0.05, 0.15], hence at least 0.05.
C15_MetricsNonNegative ==
    HudReturned =>
        LET n == Len(call.args.x)
            m == call.ret
            Deviation(k) ==
                LET ex == call.args.x[k] - gaussian_filter1d(call.args.x)[k]
                    ey == call.args.y[k] - gaussian_filter1d(call.args.y)[k]
                    ez == call.args.z[k] - gaussian_filter1d(call.args.z)[k]
                IN  Sqrt(ex * ex + ey * ey + ez * ez)
            Total[k \in 0..n] == IF k = 0 THEN 0 ELSE Total[k - 1] + Deviation(k)
        IN  /\ m.velocity >= 0
            /\ m.acceleration >= 0
            /\ m.uncertainty >= 0
            /\ n >= 4 =>
                   /\ 20 * call.locals.jitter >= MetricOne
                   /\ 20 * call.locals.jitter <= 3 * MetricOne
                   /\ m.uncertainty = ((Total[n] * 100) \div n) + call.locals.jitter
                   /\ 20 * m.uncertainty >= MetricOne
                   /\ rng = RngStep(call.entry_rng)

\* the metrics of a path of at least four points that deviates from its
\* smoothed copy, with coordinates of both signs
C15_Witness ==
    /\ HudReturned
    /\ Len(call.args.x) >= 4
    /\ call.args.x[1] < 0
    /\ call.ret.uncertainty > call.locals.jitter

BlendReturned == ReturnedFrom({"blend_toward_healthy"})

\* (1 - alpha) * a + alpha * b, times AlphaOne
Linear(a, b, alpha) == (AlphaOne - alpha) * a + alpha * b

C17_BlendNeverFails ==
    Ended("blend_toward_healthy") =>
        /\ call.pc = "returned"
        /\ Len(call.ret.u) = Len(call.args.intervention_path.u)
        /\ call.ret.num_points = Len(call.args.intervention_path.u)

\* C18 as stated: intervention_path raises whenever the slider dict lacks one
\* of the six keys, and when no dict is supplied.
C18_MissingKeyFailsFast ==
    ( /\ Ended("intervention_path")
      /\ \/ call.args.sliders = None
         \/ \E k \in SliderKeys : k \notin DOMAIN call.args.sliders ) =>
        call.pc = "raised"

----------------------------------------------------------------------------
(* Properties of the report (SpecReport)                                   *)

ReportErrors ==
    {"ANTHROPIC_API_KEY not found in environment variables. Please set your API key.",
     "Could not connect to any Claude model. Last error: ",
     "Error generating report: "}

\* C19: generate_clinical_report lets no exception escape and hands back
\* either (text, None) or (None, non-empty error string); it is entered only
\* after the metrics and the coupled record exist, and these, the generator
\* and the engine's last call are the same after it, whether it succeeded or
\* failed; the handler shows the error exactly when there is one.
C19_ReportFailureIsolated ==
    /\ report.pc # "escaped"
    /\ report.pc # "idle" =>
           /\ intervention_metrics # NotComputed
           /\ intervention_metrics
                  = CoupledMetrics(statusquo_metrics, intervention_metrics_raw)
           /\ report.metrics_data.statusquo = statusquo_metrics
           /\ report.metrics_data.healthy = healthy_metrics
           /\ report.metrics_data.interventions = intervention_metrics
           /\ rng = 0
           /\ call = NoCall
           /\ mesh = MeshIdle
    /\ report.pc \in {"done", "shown"} =>
           LET text == report.result[1]
               error == report.result[2]
           IN  /\ (text = None) # (error = None)
               /\ error # None => (error.error \in ReportErrors /\ error.error # "")
               /\ text # None =>
                      /\ text.text # ""
                      /\ \E i \in 1..Len(models_to_try) : text.model = models_to_try[i]
    /\ report.pc = "shown" =>
           (report.shown = "error") = (report.result[1] = None)

\* every model failed and the handler has shown the error
C19_Witness ==
    /\ report.pc = "shown"
    /\ report.shown = "error"
    /\ report.result[2].error = "Could not connect to any Claude model. Last error: "
    /\ report.metrics_data.interventions = intervention_metrics

\* C20: in the report record, delta_v and delta_a are the displayed (coupled)
\* intervention values minus the status-quo values, velocity_change_pct is
\* 100*delta_v/v_statusquo and accel_change_pct is 100*delta_a/a_statusquo (to
\* a hundredth of a percent), and each is 0 when its reference value is 0.
C20_PercentageDeltas ==
    report.pc # "idle" =>
        LET md == report.metrics_data
            v0 == statusquo_metrics.velocity
            a0 == statusquo_metrics.acceleration
        IN  /\ md.delta_v = intervention_metrics.velocity - v0
            /\ md.delta_a = intervention_metrics.acceleration - a0
            /\ md.delta_a = da_coupled(v0, a0, intervention_metrics_raw.velocity,
                                       intervention_metrics_raw.acceleration)
            /\ v0 = 0 => md.velocity_change_pct = 0
            /\ a0 = 0 => md.accel_change_pct = 0
            /\ v0 > 0 =>
                   /\ md.velocity_change_pct * v0 <= 10000 * md.delta_v
                   /\ 10000 * md.delta_v < (md.velocity_change_pct + 1) * v0
            /\ a0 > 0 =>
                   /\ md.accel_change_pct * a0 <= 10000 * md.delta_a
                   /\ 10000 * md.delta_a < (md.accel_change_pct + 1) * a0
            /\ v0 >= 0 /\ a0 >= 0

\* a report record with a velocity change of -20 % and a zero reference
\* acceleration against a non-zero acceleration delta
C20_Witness ==
    /\ report.pc = "prepared"
    /\ report.metrics_data.velocity_change_pct = -2000
    /\ statusquo_metrics.acceleration = 0
    /\ report.metrics_data.delta_a # 0
    /\ report.metrics_data.accel_change_pct = 0

ReportPrepared == report.pc # "idle"

\* C21: the status label is chosen by first match: delta_v < 0 and
\* delta_a < 0, the 'both decreasing' label; else delta_v < 0, the 'velocity
\* decreasing but acceleration stable' label; else |delta_v| < 0.5, the
\* 'minimal change' label; otherwise the 'requires intervention review' label.
C21_StatusLabelOrder ==
    ReportPrepared =>
        LET md == report.metrics_data
            dv == md.delta_v
            da == md.delta_a
            label == md.trajectory_status
        IN  /\ (dv < 0 /\ da < 0) =>
                   label = "Both velocity and acceleration decreasing - excellent trajectory improvement"
            /\ (dv < 0 /\ da >= 0) =>
                   label = "Velocity decreasing but acceleration stable - good progress"
            /\ (dv >= 0 /\ 2 * dv < MetricOne) =>
                   label = "Minimal change - interventions may need adjustment"
            /\ (dv >= 0 /\ 2 * dv >= MetricOne) =>
                   label = "Velocity increasing - requires intervention review"

\* a small velocity decrease (0.2) with a decreasing acceleration: both the
\* first and the third test hold, and the first one decides
C21_Witness ==
    /\ ReportPrepared
    /\ report.metrics_data.delta_v = -400
    /\ report.metrics_data.delta_a < 0
    /\ report.metrics_data.trajectory_status
           = "Both velocity and acceleration decreasing - excellent trajectory improvement"

\* the summary labels in their fixed order, with the slider each one reports
SummaryOrder ==
    <<[key |-> "sleep_change", label |-> "- Sleep adjustment"],
      [key |-> "vo2max_change", label |-> "- VO2max improvement"],
      [key |-> "alcohol_reduction", label |-> "- Alcohol reduction"],
      [key |-> "caffeine_reduction", label |-> "- Caffeine reduction"]>>

\* C22: the summary has one line for exactly the non-zero sliders, in the
\* order sleep, VO2max, alcohol, caffeine; with every slider zero it is the
\* single 'No interventions currently applied' line; count is the number of
\* non-zero sliders.
C22_SummaryListsActiveSliders ==
    ReportPrepared =>
        LET sl == report.sliders
            summary == report.interventions_data.summary
            active == {i \in 1..Len(SummaryOrder) : sl[SummaryOrder[i].key] # 0}
            Position(i) == Cardinality({j \in active : j <= i})
        IN  /\ report.interventions_data.count = Cardinality(active)
            /\ active = {} =>
                   /\ Len(summary) = 1
                   /\ summary[1].label = "- No interventions currently applied"
            /\ active # {} =>
                   /\ Len(summary) = Cardinality(active)
                   /\ \A i \in active : summary[Position(i)].label = SummaryOrder[i].label

\* a summary of two lines, VO2max then caffeine, for two non-zero sliders
C22_Witness ==
    /\ ReportPrepared
    /\ report.sliders.sleep_change = 0
    /\ report.sliders.alcohol_reduction = 0
    /\ Len(report.interventions_data.summary) = 2
    /\ report.interventions_data.summary[2].label = "- Caffeine reduction"

\* C26: the models are called in the order opus, sonnet, haiku, each at most
\* once and only after the earlier ones failed; the loop stops at the first
\* model that answers, whose text is returned; when all three fail the error
\* is the last model's; with no API key no model is called.
C26_ModelOrder ==
    LET order == <<"claude-3-opus-20240229", "claude-3-sonnet-20240229",
                   "claude-3-haiku-20240307">>
    IN  /\ report.pc \in {"idle", "prepared", "client"} =>
               "tried" \notin DOMAIN report
        /\ report.pc \in {"models", "done", "shown"} =>
               /\ Len(report.tried) <= 3
               /\ \A i \in 1..Len(report.tried) : report.tried[i] = order[i]
        /\ report.pc = "models" =>
               /\ report.message = None =>
                      /\ report.model_index = Len(report.tried) + 1
                      /\ Len(report.tried) > 0 =>
                             report.last_error
                                 = [model_error |-> order[Len(report.tried)]]
               /\ report.message # None =>
                      /\ report.model_index > 3
                      /\ report.message.model = order[Len(report.tried)]
        /\ report.pc \in {"done", "shown"} =>
               LET text == report.result[1]
                   error == report.result[2]
               IN  /\ text # None =>
                          /\ Len(report.tried) >= 1
                          /\ text.model = order[Len(report.tried)]
                   /\ (error # None /\ error = ApiKeyMissing) => report.tried = <<>>
                   /\ (error # None
                       /\ error.error = "Could not connect to any Claude model. Last error: ") =>
                          /\ report.tried = order
                          /\ error.detail = [model_error |-> order[3]]

\* opus and sonnet failed, haiku answered, and its text is the result
C26_Witness ==
    /\ report.pc = "done"
    /\ report.result[2] = None
    /\ Len(report.tried) = 3
    /\ report.result[1].model = "claude-3-haiku-20240307"

\* C27: the reported delta_a is the coupled delta, so delta_v < 0 implies
\* delta_a < 0: a velocity decrease always gets the 'both decreasing' label
\* and the 'velocity decreasing but acceleration stable' label is never chosen.
C27_StableLabelUnreachable ==
    ReportPrepared =>
        LET md == report.metrics_data
        IN  /\ md.delta_a = intervention_metrics.acceleration - statusquo_metrics.acceleration
            /\ md.delta_v < 0 =>
                   /\ md.delta_a < 0
                   /\ md.trajectory_status
                          = "Both velocity and acceleration decreasing - excellent trajectory improvement"
            /\ md.trajectory_status
                   # "Velocity decreasing but acceleration stable - good progress"

\* a velocity decrease whose raw acceleration delta was not negative: the
\* coupling rule made the reported delta negative
C27_Witness ==
    /\ ReportPrepared
    /\ report.metrics_data.delta_v < 0
    /\ intervention_metrics_raw.acceleration >= statusquo_metrics.acceleration
    /\ report.metrics_data.delta_a < 0

----------------------------------------------------------------------------
(* Properties of the application script (SpecApp)                          *)

\* the paths of this run have been generated
Generated == app.pc \in {"generated", "report", "displayed"}

\* the run is over and an earlier run of the session is remembered
ShownAfterEarlierRun == app.pc = "displayed" /\ app.previous.run

\* C23: the path cache is never stale: after any sequence of horizon changes,
\* slider changes, resets and report requests the cached status-quo and
\* healthy paths used for rendering and metrics are those of the selected
\* horizon (30 + 10*horizon points each); the cached historical path has 3
\* points, starts at (1.5, 0.8), is computed once and never changed afterwards.
C23_CacheNeverStale ==
    /\ [](Generated =>
            LET n == 30 + 10 * app.time_horizon
                statusquo_data == session_state.statusquo_cache
                healthy_data == session_state.healthy_cache
                baseline_data == session_state.baseline_cache
            IN  /\ statusquo_data.num_points = n
                /\ Len(statusquo_data.u) = n /\ Len(statusquo_data.x) = n
                /\ healthy_data.num_points = n
                /\ Len(healthy_data.u) = n /\ Len(healthy_data.x) = n
                /\ baseline_data.num_points = 3
                /\ Len(baseline_data.u) = 3
                /\ baseline_data.u[1] = 150 /\ baseline_data.v[1] = 80
                /\ session_state.start_uv = <<150, 80>>)
    /\ [](app.pc = "generated" =>
            /\ session_state.statusquo_cache
                   = status_quo_path(<<150, 80>>, app.time_horizon, Word32(43), 0).ret
            /\ session_state.healthy_cache
                   = healthy_population_path(<<0, 0>>, app.time_horizon, Word32(100), 0).ret)
    /\ [][/\ session_state.baseline_cache # None =>
                session_state'.baseline_cache = session_state.baseline_cache
          /\ session_state'.start_uv = session_state.start_uv
          /\ app'.pc \in {"report", "displayed"} =>
                /\ session_state'.statusquo_cache = session_state.statusquo_cache
                /\ session_state'.healthy_cache = session_state.healthy_cache]_vars

\* a run displayed after the horizon was changed from 12 to 3 months: the
\* caches hold 60-point paths and the historical path of the first run
C23_Witness ==
    /\ ShownAfterEarlierRun
    /\ app.previous.time_horizon = 12
    /\ app.time_horizon = 3
    /\ Len(session_state.statusquo_cache.u) = 60
    /\ Len(session_state.healthy_cache.u) = 60
    /\ Len(session_state.baseline_cache.u) = 3

\* two records agree but for the jitter added to the uncertainty, and each
\* jitter lies in the range 0.05 .. 0.15
SameButJitter(now, jitter_now, was, jitter_was) ==
    /\ now.velocity = was.velocity
    /\ now.acceleration = was.acceleration
    /\ now.uncertainty - jitter_now = was.uncertainty - jitter_was
    /\ jitter_now >= 100 /\ jitter_now <= 300
    /\ jitter_was >= 100 /\ jitter_was <= 300

\* C24: two runs of the script with the same start point, horizon and sliders
\* display the same velocity and acceleration in all three records, and
\* uncertainties that differ at most by the jitter, which is in [0.05, 0.15].
C24_PipelineRepeatable ==
    (/\ ShownAfterEarlierRun
     /\ app.previous.time_horizon = app.time_horizon
     /\ app.previous.interventions = app.interventions) =>
        LET was == app.previous
        IN  /\ SameButJitter(statusquo_metrics, app.jitter.statusquo,
                             was.statusquo_metrics, was.jitter.statusquo)
            /\ SameButJitter(healthy_metrics, app.jitter.healthy,
                             was.healthy_metrics, was.jitter.healthy)
            /\ SameButJitter(intervention_metrics, app.jitter.intervention,
                             was.intervention_metrics, was.jitter.intervention)

\* the same non-zero sliders and horizon run twice, the second run having
\* found the process-wide generator in another state than the first
C24_Witness ==
    /\ ShownAfterEarlierRun
    /\ app.previous.time_horizon = app.time_horizon
    /\ app.previous.interventions = app.interventions
    /\ app.interventions # DefaultSliders
    /\ app.previous.rng_moved
    /\ intervention_metrics = app.previous.intervention_metrics

\* C29: the blend gets two paths of 30 + 10*horizon points, so it never
\* resamples; its alpha is 0.35 when a slider is non-zero and 0 otherwise, and
\* with every slider at zero the displayed intervention path is the raw
\* intervention path, point for point.
C29_BlendInputsAligned ==
    /\ app.pc # "failed"
    /\ Generated =>
          LET n == 30 + 10 * app.time_horizon
              raw == app.intervention_data_raw
              shown == app.intervention_data
              zero == \A k \in DOMAIN app.interventions : app.interventions[k] = 0
          IN  /\ Len(raw.u) = n /\ Len(raw.v) = n
              /\ Len(session_state.healthy_cache.u) = n
              /\ Len(session_state.healthy_cache.v) = n
              /\ ~app.resampled
              /\ app.alpha_blend = IF zero THEN 0 ELSE 35
              /\ shown.alpha = app.alpha_blend
              /\ zero => /\ shown.u = raw.u /\ shown.v = raw.v
                         /\ shown.x = raw.x /\ shown.y = raw.y /\ shown.z = raw.z
                         /\ shown.num_points = raw.num_points

\* the zero vector at the 6-month horizon: two 90-point paths, alpha 0, the
\* displayed path equal to the raw one
C29_Witness ==
    /\ app.pc = "generated"
    /\ app.interventions = DefaultSliders
    /\ app.time_horizon = 6
    /\ Len(app.intervention_data_raw.u) = 90
    /\ app.alpha_blend = 0
    /\ app.intervention_data.x = app.intervention_data_raw.x

\* the generator n steps after state g
RECURSIVE RngSteps(_, _)
RngSteps(g, n) == IF n = 0 THEN g ELSE RngSteps(RngStep(g), n - 1)

\* C30: at a fixed horizon the status-quo and healthy metrics do not depend
\* on the sliders: velocity and acceleration are the same for any two
\* settings, and the uncertainties differ only by the jitter, which is drawn
\* from the process-wide generator as intervention_path left it after
\* reseeding it from the slider-derived seed.
C30_ReferenceMetricsIgnoreSliders ==
    /\ ShownAfterEarlierRun /\ app.previous.time_horizon = app.time_horizon =>
          LET was == app.previous
          IN  /\ SameButJitter(statusquo_metrics, app.jitter.statusquo,
                               was.statusquo_metrics, was.jitter.statusquo)
              /\ SameButJitter(healthy_metrics, app.jitter.healthy,
                               was.healthy_metrics, was.jitter.healthy)
    /\ app.pc = "displayed" =>
          LET draws == 3 * (Max(5, app.time_horizon + 2) - 1)
              left == RngSteps(SeedState(app.seed), draws)
          IN  /\ app.seed = Mod32(SeedSum(Word32(44), Md5Prefix(SliderStr(app.interventions))))
              /\ app.generated_rng = left
              /\ app.jitter.statusquo = Uniform(left, 100, 300).value
              /\ app.jitter.healthy = Uniform(RngStep(left), 100, 300).value

\* the sliders were moved at an unchanged horizon and the status-quo
\* uncertainty changed with them, by the jitter alone
C30_Witness ==
    /\ ShownAfterEarlierRun
    /\ app.previous.time_horizon = app.time_horizon
    /\ app.previous.interventions # app.interventions
    /\ statusquo_metrics.uncertainty # app.previous.statusquo_metrics.uncertainty
    /\ statusquo_metrics.velocity = app.previous.statusquo_metrics.velocity

----------------------------------------------------------------------------
(* Properties of the step-size factor (SpecStepFactor)                     *)

StepFactorReturned == call.pc = "returned" /\ call.fn = "step_factor"

\* the dict with one slider one widget step higher
OneStepUp(sl, key) ==
    [sl EXCEPT ![key] = @ + (CASE key = "sleep_change" -> 50
                               [] key = "vo2max_change" -> 500
                               [] key = "alcohol_reduction" -> 1000
                               [] key = "caffeine_reduction" -> 5000)]

\* C28: for every dict the widgets can produce the lower clamp of step_factor
\* does not bind (1 - 0.6*score >= 0.316 > 0.3), the upper clamp binds exactly
\* when the score is <= 0, and raising a slider never raises step_factor.
C28_StepFactorOnUiGrid ==
    StepFactorReturned =>
        LET sl == call.args.sliders
            score == call.ret.intervention_score
            sf == call.ret.step_factor
        IN  /\ FactorOne - 6 * score >= 3160000
            /\ sf >= 3160000
            /\ 3160000 > StepFactorMin
            /\ (sf = FactorOne) <=> (score <= 0)
            /\ (sf = FactorOne) <=> (FactorOne - 6 * score >= FactorOne)
            /\ \A key \in SubscriptedKeys :
                  OneStepUp(sl, key) \in UiSliders =>
                      step_factor(OneStepUp(sl, key)) <= sf

\* every slider at its maximum: the factor closest to the floor, 0.316
C28_Witness ==
    /\ StepFactorReturned
    /\ call.args.sliders.sleep_change = 400
    /\ call.args.sliders.vo2max_change = 5000
    /\ call.args.sliders.alcohol_reduction = 10000
    /\ call.args.sliders.caffeine_reduction = 40000
    /\ call.ret.step_factor = 3160000

----------------------------------------------------------------------------
(* Properties of the mesh (SpecMesh)                                       *)

MeshDone == mesh.pc = "done"

Triangle(k) == {mesh.indices[3 * k + 1], mesh.indices[3 * k + 2], mesh.indices[3 * k + 3]}

EdgesOf(t) == {e \in SUBSET t : Cardinality(e) = 2}

TrianglesWithEdge(e) == {m \in 0..(mesh.num_triangles - 1) : e \subseteq Triangle(m)}

\* C4: for nu, nv >= 3 the mesh has nu*nv positions and as many normals,
\* exactly 2*nu*nv triangles, every index in [0, nu*nv), and every undirected
\* edge of a triangle lies in exactly two triangles.
C4_ClosedMesh ==
    MeshDone =>
        /\ Len(mesh.positions) = mesh.nu * mesh.nv
        /\ Len(mesh.normals) = mesh.nu * mesh.nv
        /\ mesh.num_vertices = mesh.nu * mesh.nv
        /\ mesh.num_triangles = 2 * mesh.nu * mesh.nv
        /\ Len(mesh.indices) = 3 * mesh.num_triangles
        /\ \A p \in 1..Len(mesh.indices) :
               mesh.indices[p] >= 0 /\ mesh.indices[p] < mesh.nu * mesh.nv
        /\ \A k \in 0..(mesh.num_triangles - 1) :
               /\ Cardinality(Triangle(k)) = 3
               /\ \A e \in EdgesOf(Triangle(k)) : Cardinality(TrianglesWithEdge(e)) = 2

\* a finished mesh with different segment counts, both loops wrapped
C4_Witness == MeshDone /\ mesh.nu = 4 /\ mesh.nv = 3

=============================================================================
